---------------------------- MODULE Spec2Model ----------------------------
(***************************************************************************)
(* StegoTester: the correlator (utils.group_files_smart) and the metric    *)
(* worker (worker.MetricWorker.run).                                       *)
(*                                                                         *)
(* A path is a record [stem, ext]: the stem is the sequence of words that  *)
(* re.split(r'[_\-\s\.]+') yields on Path(f).stem, the ext is Path.suffix. *)
(* What lies behind a path on disk is given by Disk: the file's format and *)
(* the signature the fingerprint library derives from its data.            *)
(* A perceptual hash is the set of its set bit positions (1..64); an audio *)
(* fingerprint is its vector of bin magnitudes, kept un-normalised: the    *)
(* cosine comparison does not depend on the scale.                         *)
(* A group id is the decimal string str(n), written as its digit sequence. *)
(* Spec runs the correlator and then the worker on its result; SpecProb    *)
(* calls utils.calculate_image_stego_prob and calculate_audio_stego_prob   *)
(* on small files.                                                         *)
(***************************************************************************)
EXTENDS Integers, Sequences, FiniteSets, TLC

VARIABLES
    originals,          \* argument of group_files_smart
    stegos,             \* argument of group_files_smart
    extracts,           \* argument of group_files_smart
    orig_entries,       \* local of group_files_smart
    final_refs,         \* local / first result of group_files_smart
    groups,             \* local / second result of group_files_smart
    global_id_counter,  \* local of group_files_smart
    pc,                 \* position of the control flow
    i,                  \* index of the running for loop (1-based)
    visited,            \* history: one record per finished loop iteration
    model_files,        \* the two files under models/: "missing", "valid" or "corrupt"
    model_fits,         \* whether the pickled classifiers take the extracted feature vectors
    requested,          \* the metric selection the caller asks for
    probe,              \* a direct call of one of the two stego_prob functions of utils
    metrics,            \* MetricWorker.metrics
    img_model,          \* MetricWorker.img_model: TRUE for a loaded classifier, FALSE for None
    aud_model,          \* MetricWorker.aud_model: TRUE for a loaded classifier, FALSE for None
    order,              \* MetricWorker.run: the list sorted(self.groups.items()), its keys
    run_i,                \* MetricWorker.run: index into order (1-based; the code's i + 1)
    data_rows,          \* MetricWorker.run: local
    emitted,            \* the signals emitted so far, in order
    attempted           \* history: per appended row, the calls made while building it

gvars == <<originals, stegos, extracts, orig_entries, global_id_counter, i, visited>>
evars == <<model_files, model_fits, requested, probe>>
wvars == <<metrics, img_model, aud_model, order, run_i, data_rows, emitted, attempted>>
vars == <<originals, stegos, extracts, orig_entries, final_refs, groups,
          global_id_counter, pc, i, visited, model_files, model_fits, requested, probe,
          metrics,
          img_model, aud_model, order, run_i, data_rows, emitted, attempted>>

-----------------------------------------------------------------------------
(* Bounds of the model *)

MaxOrig == 2
MaxCands == 2
MaxMid == 3
MaxLong == 11
MaxWork == 2

-----------------------------------------------------------------------------
(* utils.py constants *)

IMG_EXT == {".png", ".jpg", ".jpeg", ".bmp", ".tiff", ".gif", ".webp"}
AUD_EXT == {".wav", ".flac", ".mp3"}
STOP_WORDS == {"orig", "original", "stego", "extract", "audio", "image", "text",
               "file", "output", "test", "tonal", "speech", "melodik", "noise"}

\* TXT_EXT: defined by utils, read by nothing in it
TXT_EXT == {".txt", ".bin", ".log"}

\* The words made of decimal digits only (str.isdigit) that file names use.
NumWord == <<"1", "2", "3", "4", "5", "6", "7", "8", "9", "10", "11", "12",
             "13", "14", "15", "16">>

isdigit(w) == \E k \in DOMAIN NumWord : NumWord[k] = w

\* str.lower on the strings that occur in file names.
lower(s) ==
    CASE s = ".PNG" -> ".png"
      [] s = ".WAV" -> ".wav"
      [] s = "Lena" -> "lena"
      [] OTHER -> s

Range(s) == {s[k] : k \in DOMAIN s}

-----------------------------------------------------------------------------
(* The files on disk *)

P(stem, ext) == [stem |-> stem, ext |-> ext]

\* A vector of magnitudes is kept as its number of entries and its leading
\* entries; the entries after them are 0.
NoVec == [bins |-> 0, head |-> <<>>]

\* entry k of such a vector
At(u, k) == IF k <= Len(u.head) THEN u.head[k] ELSE 0

ImageData(bits) == [fmt |-> "image", hash |-> bits, vec |-> NoVec]
\* The spectrum np.fft.rfft gives for n samples has n // 2 + 1 entries: 101 for
\* the 201 samples of the audio files of the model, 3 for one of 5 samples.
SpectrumOf(v, n_samples) == [bins |-> n_samples \div 2 + 1, head |-> v]

\* an audio file of 201 samples whose spectrum starts with v, the rest being 0
AudioData(v) == [fmt |-> "audio", hash |-> {}, vec |-> SpectrumOf(v, 201)]
\* an audio file of 5 samples
ShortAudioData(v) == [fmt |-> "audio", hash |-> {}, vec |-> SpectrumOf(v, 5)]
\* an audio file of n_samples samples, long enough for a spectrum of more than
\* n_bins entries
LongAudioData(v, n_samples) == [fmt |-> "audio", hash |-> {}, vec |-> SpectrumOf(v, n_samples)]
OtherData == [fmt |-> "other", hash |-> {}, vec |-> NoVec]

\* originals
oA == P(<<"orig", "baboon">>, ".png")
oB == P(<<"orig", "lena", "baboon">>, ".png")
oE == P(<<"original", "Lena">>, ".PNG")
oC == P(<<"orig", "speech", "piano">>, ".wav")
oD == P(<<"orig", "guitar">>, ".wav")
oF == P(<<"orig", "piano", "loud">>, ".WAV")
oT == P(<<"secret", "message">>, ".txt")
\* candidates
c1 == P(<<"stego", "1", "lena">>, ".png")
c2 == P(<<"stego", "2", "ab">>, ".png")
c3 == P(<<"baboon", "lena", "out">>, ".png")
c4 == P(<<"piano", "baboon">>, ".png")
a1 == P(<<"stego", "piano">>, ".wav")
a2 == P(<<"stego", "3">>, ".wav")
a3 == P(<<"short", "piano">>, ".wav")
t1 == P(<<"extract", "secret">>, ".dat")
t2 == P(<<"extract", "piano", "notes">>, "")
a4 == P(<<"stego", "quiet">>, ".wav")
\* a byte-for-byte copy of oC
a5 == P(<<"stego", "speech", "copy">>, ".wav")
\* a file named .wav that holds no audio
a6 == P(<<"piano", "broken">>, ".wav")
\* a recording of 1001 samples and a stego version of it that is 1201 samples long
oL == P(<<"orig", "organ">>, ".wav")
aL == P(<<"stego", "7">>, ".wav")
\* a family of distinct stego images of the same cover
Fam(n) == P(<<"stego", NumWord[n], "baboon">>, ".png")

Disk(path) ==
    CASE path = oA -> ImageData({})
      [] path = oB -> ImageData(1..16)
      [] path = oE -> OtherData
      [] path = oC -> AudioData(<<1, 0, 0, 0>>)
      [] path = oD -> AudioData(<<0, 1, 0, 0>>)
      [] path = oF -> AudioData(<<2, 0, 0, 0>>)
      [] path = oT -> OtherData
      [] path = c1 -> ImageData(1..4)
      [] path = c2 -> ImageData(1..8)
      [] path = c3 -> ImageData(1..28)
      [] path = c4 -> OtherData
      [] path = a1 -> AudioData(<<9, 3, 3, 1>>)
      [] path = a2 -> AudioData(<<9, 1, 0, 0>>)
      [] path = a3 -> ShortAudioData(<<1, 1, 1>>)
      [] path = t1 -> OtherData
      [] path = t2 -> OtherData
      [] path = a4 -> AudioData(<<3, 0, 0, 0>>)
      [] path = a5 -> AudioData(<<1, 0, 0, 0>>)
      [] path = a6 -> OtherData
      [] path = oL -> LongAudioData(<<5, 1, 0, 0>>, 1001)
      [] path = aL -> LongAudioData(<<5, 1, 1, 0>>, 1201)
      [] OTHER -> ImageData({})

\* The inputs are drawn from one of these pools: <<originals, candidates>>.
ImagePool == <<{oA, oB, oE}, {c1, c2, c3}>>
AudioPool == <<{oC, oD, oF}, {a1, a2, a3}>>
MixedPool == <<{oA, oC, oT}, {c4, a1, t1}>>
Pools == {ImagePool, AudioPool, MixedPool}
\* the longer candidate lists are drawn from these, against MidOriginals
MidOriginals == <<oA, oC, oT>>
MidCands == {c2, a1, t2}
\* the worker's inputs in full are drawn from these, against MidOriginals
WorkStegos == {c4, a2, a4, a5, a6, t1}
WorkExtracts == {c2, a1}

\* The least significant bits of the samples of an audio file.  Wave(m) is a
\* signal of 201 samples whose bits alternate over the first m samples and
\* stay put afterwards: m - 1 transitions over 200 adjacent pairs.
Wave(m) == [k \in 1..201 |-> IF k <= m THEN k % 2 ELSE m % 2]
\* the same over n samples
LongWave(n, m) == [k \in 1..n |-> IF k <= m THEN k % 2 ELSE m % 2]

LsbStream(path) ==
    CASE path = a1 -> Wave(93)
      [] path = a2 -> Wave(92)
      [] path = a3 -> <<0, 0, 1, 1, 1>>
      [] path = a4 -> Wave(2)
      [] path = oC -> Wave(101)
      [] path = a5 -> Wave(101)
      [] path = oL -> LongWave(1001, 1)
      [] path = aL -> LongWave(1201, 3)
      [] OTHER -> Wave(1)

\* the file the bytes of a file are a copy of
BytesOf(path) == IF path = a5 THEN oC ELSE path

-----------------------------------------------------------------------------
(* Fingerprints *)

None == [null |-> TRUE, hash |-> {}, vec |-> NoVec]

\* utils.calculate_phash: any failure to open or hash the file gives None.
calculate_phash(path) ==
    IF Disk(path).fmt = "image"
    THEN [null |-> FALSE, hash |-> Disk(path).hash, vec |-> NoVec]
    ELSE None

\* n_bins = 500
n_bins == 500

\* the sum of spectrum[from..to]
RECURSIVE SectionSum(_, _, _)
SectionSum(spectrum, from, to) ==
    IF from > to \/ from > Len(spectrum.head) THEN 0
    ELSE spectrum.head[from] + SectionSum(spectrum, from + 1, to)

\* [np.mean(a) for a in np.array_split(spectrum, n_bins)]: the first
\* len % n_bins sections hold len // n_bins + 1 entries, the others len // n_bins.
\* Every mean is kept multiplied by q * (q + 1), which leaves the cosine as it is.
Binned(spectrum) ==
    LET q == spectrum.bins \div n_bins
        r == spectrum.bins % n_bins
        kept == IF Len(spectrum.head) < n_bins THEN Len(spectrum.head) ELSE n_bins
    IN  [bins |-> n_bins,
         head |-> [k \in 1..kept |->
            IF k <= r
            THEN q * SectionSum(spectrum, (k - 1) * (q + 1) + 1, k * (q + 1))
            ELSE (q + 1) * SectionSum(spectrum, r * (q + 1) + (k - 1 - r) * q + 1,
                                      r * (q + 1) + (k - r) * q)]]

\* if len(spectrum) > n_bins: ... else: fingerprint = spectrum
FingerprintOf(spectrum) ==
    IF spectrum.bins > n_bins THEN Binned(spectrum) ELSE spectrum

\* utils.calculate_audio_fingerprint: any failure to read the file gives None.
\* The files of the model are shorter than the 10 seconds the code keeps.
calculate_audio_fingerprint(path) ==
    IF Disk(path).fmt = "audio"
    THEN [null |-> FALSE, hash |-> {}, vec |-> FingerprintOf(Disk(path).vec)]
    ELSE None

\* ImageHash.__sub__: the number of differing bits.
Hamming(h1, h2) == Cardinality((h1 \ h2) \cup (h2 \ h1))

RECURSIVE DotFrom(_, _, _)
DotFrom(u, v, k) ==
    IF k > Len(u.head) THEN 0 ELSE u.head[k] * At(v, k) + DotFrom(u, v, k + 1)

Dot(u, v) == DotFrom(u, v, 1)

\* scipy's cosine raises ValueError on vectors of different lengths.
CosineRaises(u, v) == u.bins # v.bins

\* similarity = 1.0 - cosine(u, v), as the exact fraction of its square:
\* <<(u.v)^2, (u.u)(v.v)>>.  Magnitude vectors have no negative entry, so the
\* similarity itself is never negative.  A zero vector gives 0/0 (nan).
Similarity(u, v) == <<Dot(u, v) * Dot(u, v), Dot(u, u) * Dot(v, v)>>

\* similarity > best_score on such fractions; a comparison with nan is False.
SimGreaterMut(s, best) == s[2] # 0 /\ s[1] * best[2] >= best[1] * s[2]

SimGreater(s, best) == s[2] # 0 /\ s[1] * best[2] > best[1] * s[2]

\* utils.get_tokens
get_tokens(path) ==
    {t \in {lower(w) : w \in Range(path.stem)} :
        t \notin STOP_WORDS /\ ~isdigit(t) /\ Len(t) > 2}

\* the modality of a path, from its lower-cased suffix
TypeOf(path) ==
    IF lower(path.ext) \in IMG_EXT THEN "image"
    ELSE IF lower(path.ext) \in AUD_EXT THEN "audio"
    ELSE "text"

\* one element of orig_entries
Entry(f) ==
    [path |-> f,
     tokens |-> get_tokens(f),
     type |-> TypeOf(f),
     fingerprint |-> IF lower(f.ext) \in IMG_EXT THEN calculate_phash(f)
                     ELSE IF lower(f.ext) \in AUD_EXT THEN calculate_audio_fingerprint(f)
                     ELSE None]

-----------------------------------------------------------------------------
(* find_best_original.  A match is an index into orig_entries, 0 for None. *)

\* best_diff = 12
best_diff_init == 12

\* best_score = 0.90, as the fraction of its square
best_score_init == <<81, 100>>

DiffLessMut(diff, best_diff) == diff <= best_diff

\* if diff < best_diff
DiffLess(diff, best_diff) == diff < best_diff

OverlapBetterMut(overlap, best_overlap) == overlap > 0 /\ overlap >= best_overlap

\* if overlap > 0 and overlap > best_overlap
OverlapBetter(overlap, best_overlap) == overlap > 0 /\ overlap > best_overlap

SameTypeMut(entry, cand_type) == TRUE

\* if entry['type'] == cand_type
SameType(entry, cand_type) == entry.type = cand_type

\* the image loop
RECURSIVE ImageLoop(_, _, _, _, _)
ImageLoop(entries, cand_fp, k, best_diff, best_match) ==
    IF k > Len(entries) THEN best_match
    ELSE IF entries[k].type = "image" /\ ~entries[k].fingerprint.null
    THEN LET diff == Hamming(cand_fp.hash, entries[k].fingerprint.hash)
         IN  IF DiffLess(diff, best_diff)
             THEN ImageLoop(entries, cand_fp, k + 1, diff, k)
             ELSE ImageLoop(entries, cand_fp, k + 1, best_diff, best_match)
    ELSE ImageLoop(entries, cand_fp, k + 1, best_diff, best_match)

\* the audio loop; cosine() raising ends the call
RECURSIVE AudioLoop(_, _, _, _, _)
AudioLoop(entries, cand_fp, k, best_score, best_match) ==
    IF k > Len(entries) THEN [raised |-> FALSE, match |-> best_match]
    ELSE IF entries[k].type = "audio" /\ ~entries[k].fingerprint.null
    THEN IF CosineRaises(cand_fp.vec, entries[k].fingerprint.vec)
         THEN [raised |-> TRUE, match |-> 0]
         ELSE LET similarity == Similarity(cand_fp.vec, entries[k].fingerprint.vec)
              IN  IF SimGreater(similarity, best_score)
                  THEN AudioLoop(entries, cand_fp, k + 1, similarity, k)
                  ELSE AudioLoop(entries, cand_fp, k + 1, best_score, best_match)
    ELSE AudioLoop(entries, cand_fp, k + 1, best_score, best_match)

\* the token loop
RECURSIVE TokenLoop(_, _, _, _, _, _)
TokenLoop(entries, cand_type, cand_tokens, k, best_overlap, best_match) ==
    IF k > Len(entries) THEN best_match
    ELSE IF SameType(entries[k], cand_type)
    THEN LET overlap == Cardinality(entries[k].tokens \cap cand_tokens)
         IN  IF OverlapBetter(overlap, best_overlap)
             THEN TokenLoop(entries, cand_type, cand_tokens, k + 1, overlap, k)
             ELSE TokenLoop(entries, cand_type, cand_tokens, k + 1, best_overlap, best_match)
    ELSE TokenLoop(entries, cand_type, cand_tokens, k + 1, best_overlap, best_match)

\* the candidate's fingerprint, by its modality
CandFingerprint(cand_path) ==
    IF TypeOf(cand_path) = "image" THEN calculate_phash(cand_path)
    ELSE IF TypeOf(cand_path) = "audio" THEN calculate_audio_fingerprint(cand_path)
    ELSE None

\* the if/elif of the fingerprint stage
FingerprintStage(entries, cand_path) ==
    LET cand_type == TypeOf(cand_path)
        cand_fp == CandFingerprint(cand_path)
    IN  IF cand_type = "image" /\ ~cand_fp.null
        THEN [raised |-> FALSE,
              match |-> ImageLoop(entries, cand_fp, 1, best_diff_init, 0)]
        ELSE IF cand_type = "audio" /\ ~cand_fp.null
        THEN AudioLoop(entries, cand_fp, 1, best_score_init, 0)
        ELSE [raised |-> FALSE, match |-> 0]

NotBestMatchMut(best_match) == TRUE

\* if not best_match
NotBestMatch(best_match) == best_match = 0

\* the body of "if not best_match", entered with the best_match found so far
TokenStage(entries, cand_path, best_match) ==
    TokenLoop(entries, TypeOf(cand_path), get_tokens(cand_path), 1, 0, best_match)

\* stage: which stage set the best_match returned ("fingerprint", "token", "none")
find_best_original(entries, cand_path) ==
    LET fp == FingerprintStage(entries, cand_path)
    IN  IF fp.raised THEN [raised |-> TRUE, match |-> 0, stage |-> "none"]
        ELSE IF NotBestMatch(fp.match)
        THEN LET tk == TokenStage(entries, cand_path, fp.match)
             IN  [raised |-> FALSE, match |-> tk,
                  stage |-> IF tk = 0 THEN "none"
                            ELSE IF tk = fp.match THEN "fingerprint" ELSE "token"]
        ELSE [raised |-> FALSE, match |-> fp.match, stage |-> "fingerprint"]

-----------------------------------------------------------------------------
(* Strings of decimal digits *)

\* str(n) for n >= 0, as the sequence of its digits
RECURSIVE str(_)
str(n) == IF n < 10 THEN <<n>> ELSE Append(str(n \div 10), n % 10)

\* int(s)
RECURSIVE int(_)
int(s) == IF Len(s) = 0 THEN 0 ELSE 10 * int(SubSeq(s, 1, Len(s) - 1)) + s[Len(s)]

-----------------------------------------------------------------------------
(* group_files_smart *)

NoMetrics == [audio |-> <<>>, image |-> <<>>, text |-> <<>>]

SeqsUpTo(S, n) == UNION {[1..k -> S] : k \in 0..n}

NoRefs == [image |-> <<>>, audio |-> <<>>, text |-> <<>>]

\* d[k] = v on a dict
Put(d, k, v) == [x \in DOMAIN d \cup {k} |-> IF x = k THEN v ELSE d[x]]

\* groups[gid] of the defaultdict
GroupOf(g, gid) == IF gid \in DOMAIN g THEN g[gid] ELSE [stego |-> <<>>, extract |-> <<>>]

CounterAfterMut(counter, matched) == counter + 1

\* global_id_counter += 1, inside "if match:"
CounterAfter(counter, matched) == IF matched THEN counter + 1 ELSE counter

GroupIdMut(counter, match) == str(match)

\* gid = str(global_id_counter); match is the index of the matched original
GroupId(counter, match) == str(counter)

\* small inputs over the whole pool of files
InitSmall ==
    \E pool \in Pools :
        /\ originals \in SeqsUpTo(pool[1], MaxOrig)
        /\ stegos \in SeqsUpTo(pool[2], MaxCands)
        /\ extracts \in SeqsUpTo(pool[2], MaxCands)
        /\ Len(stegos) + Len(extracts) <= MaxCands

\* longer candidate lists over a few files
InitMid ==
    /\ originals = MidOriginals
    /\ stegos \in SeqsUpTo(MidCands, MaxMid)
    /\ extracts \in SeqsUpTo(MidCands, MaxMid)
    /\ Len(stegos) + Len(extracts) <= MaxMid

\* many stego images of one cover
InitLong ==
    /\ originals \in {<<oA>>, <<oB, oA>>}
    /\ \E n \in 1..MaxLong : stegos = [k \in 1..n |-> Fam(k)]
    /\ extracts \in {<<>>, <<c1>>}

\* recordings long enough for binned fingerprints, and a short one with them
InitLongAudio ==
    /\ originals = <<oL>>
    /\ stegos \in {<<aL>>, <<aL, a3>>}
    /\ extracts \in {<<>>, <<aL>>}

\* the head of the function: orig_entries, final_refs, groups, the counter
Enter ==
    /\ pc = "call"
    /\ orig_entries' = [k \in 1..Len(originals) |-> Entry(originals[k])]
    /\ final_refs' = NoRefs
    /\ groups' = <<>>
    /\ global_id_counter' = 1
    /\ pc' = "stego"
    /\ i' = 1
    /\ UNCHANGED <<originals, stegos, extracts, visited>>
    /\ UNCHANGED wvars
    /\ UNCHANGED evars

\* one iteration of "for f in stegos" (kind = "stego") or "for f in extracts"
LoopBody(kind, list) ==
    /\ pc = kind
    /\ i <= Len(list)
    /\ LET f == list[i]
           r == find_best_original(orig_entries, f)
           gid == GroupId(global_id_counter, r.match)
       IN  IF r.raised
           THEN /\ pc' = "raised"
                /\ UNCHANGED <<final_refs, groups, global_id_counter, i, visited>>
           ELSE /\ pc' = pc
                /\ i' = i + 1
                /\ IF r.match # 0
                   THEN LET match == orig_entries[r.match]
                        IN  /\ groups' = Put(groups, gid,
                                    [GroupOf(groups, gid) EXCEPT
                                        ![kind] = Append(@, f)])
                            /\ final_refs' = [final_refs EXCEPT
                                    ![match.type] = Put(@, gid, match.path)]
                            /\ global_id_counter' = CounterAfter(global_id_counter, TRUE)
                            /\ visited' = Append(visited,
                                    [kind |-> kind, path |-> f, match |-> r.match,
                                     stage |-> r.stage, gid |-> gid])
                   ELSE /\ UNCHANGED <<final_refs, groups>>
                        /\ global_id_counter' = CounterAfter(global_id_counter, FALSE)
                        /\ visited' = Append(visited,
                                    [kind |-> kind, path |-> f, match |-> 0,
                                     stage |-> "none", gid |-> <<>>])
    /\ UNCHANGED <<originals, stegos, extracts, orig_entries>>
    /\ UNCHANGED wvars
    /\ UNCHANGED evars

VisitStego == LoopBody("stego", stegos)

VisitExtract == LoopBody("extract", extracts)

\* the stego loop is exhausted
EndStegos ==
    /\ pc = "stego"
    /\ i > Len(stegos)
    /\ pc' = "extract"
    /\ i' = 1
    /\ UNCHANGED <<originals, stegos, extracts, orig_entries, final_refs, groups,
                   global_id_counter, visited>>
    /\ UNCHANGED wvars
    /\ UNCHANGED evars

\* return final_refs, groups
Return ==
    /\ pc = "extract"
    /\ i > Len(extracts)
    /\ pc' = "returned"
    /\ UNCHANGED <<originals, stegos, extracts, orig_entries, final_refs, groups,
                   global_id_counter, i, visited>>
    /\ UNCHANGED wvars
    /\ UNCHANGED evars

-----------------------------------------------------------------------------
(* MetricWorker *)

\* self.metrics of a caller that asks for everything the rows can hold
FullSelection ==
    [audio |-> <<"mse", "exact_match", "ai_detection">>,
     image |-> <<"mse", "exact_match", "ai_detection">>,
     text |-> <<"similarity">>]

\* names no registry entry exists for; ai_detection for audio only
OddSelection ==
    [audio |-> <<"ai_detection">>, image |-> <<"histogram">>, text |-> <<"histogram">>]

\* a selection dict without the "audio" key
NoAudioKey == [image |-> <<"mse">>, text |-> <<"similarity">>]

\* known and unknown names side by side; ai_detection for text
MixedSelection ==
    [audio |-> <<"histogram", "mse", "ai_detection">>,
     image |-> <<"mse", "histogram", "exact_match">>,
     text |-> <<"ai_detection", "similarity">>]

\* the metric selections a worker is constructed with
Selections == {FullSelection, NoMetrics, OddSelection, NoAudioKey, MixedSelection}

FileStates == {"missing", "valid", "corrupt"}

\* no direct call of a stego_prob function
NoProbe == [fn |-> "none"]

BothValid == [image |-> "valid", audio |-> "valid"]

\* the worker's inputs in full: a few files, every selection with both model
\* files valid, and the full selection with every state of the model files
InitWork ==
    /\ originals = MidOriginals
    /\ stegos \in SeqsUpTo(WorkStegos, MaxWork)
    /\ extracts \in SeqsUpTo(WorkExtracts, MaxWork)
    /\ Len(stegos) + Len(extracts) <= MaxWork
    /\ \/ requested \in Selections /\ model_files = BothValid /\ model_fits = TRUE
       \/ /\ requested = FullSelection
          /\ model_files \in [{"image", "audio"} -> FileStates]
          /\ model_fits = TRUE
       \/ requested = FullSelection /\ model_files = BothValid /\ model_fits = FALSE

Init ==
    /\ \/ /\ InitSmall \/ InitMid \/ InitLong \/ InitLongAudio
          /\ requested = FullSelection
          /\ model_files = BothValid
          /\ model_fits = TRUE
       \/ InitWork
    /\ probe = NoProbe
    /\ orig_entries = <<>>
    /\ final_refs = NoRefs
    /\ groups = <<>>
    /\ global_id_counter = 1
    /\ pc = "call"
    /\ i = 1
    /\ visited = <<>>
    /\ metrics = NoMetrics
    /\ img_model = FALSE
    /\ aud_model = FALSE
    /\ order = <<>>
    /\ run_i = 1
    /\ data_rows = <<>>
    /\ emitted = <<>>
    /\ attempted = <<>>

\* s < t on str: lexicographic, by code point (digits compare as their values)
RECURSIVE StrLess(_, _)
StrLess(s, t) ==
    IF Len(t) = 0 THEN FALSE
    ELSE IF Len(s) = 0 THEN TRUE
    ELSE IF s[1] # t[1] THEN s[1] < t[1]
    ELSE StrLess(Tail(s), Tail(t))

\* the order sorted() puts two dict keys in
KeyLess(k1, k2) == StrLess(k1, k2)

\* sorted(d.items()), its keys: the items are (key, value) tuples with distinct keys
RECURSIVE sorted(_)
sorted(keys) ==
    IF keys = {} THEN <<>>
    ELSE LET m == CHOOSE x \in keys : \A y \in keys \ {x} : KeyLess(x, y)
         IN  <<m>> \o sorted(keys \ {m})

Signal(sig, n, rows) == [sig |-> sig, int |-> n, rows |-> rows]

\* round(100 * n / total_groups): the nearest integer, a tie to the even one
progress_percentRound(n, total_groups) ==
    LET q == (100 * n) \div total_groups
        r == (100 * n) % total_groups
    IN  IF 2 * r < total_groups THEN q
        ELSE IF 2 * r > total_groups THEN q + 1
        ELSE IF q % 2 = 0 THEN q ELSE q + 1

progress_percentLate(n, total_groups) == (100 * (n - 1)) \div total_groups

\* int(((i + 1) / total_groups) * 100); n is i + 1.  For total_groups < 50 the
\* double computation gives the floor of the exact quotient.
progress_percent(n, total_groups) == (100 * n) \div total_groups

-----------------------------------------------------------------------------
(* _load_models *)

\* One try block holds both loads: a joblib.load that raises ends the block,
\* and the except clause only prints.  A file that does not exist is skipped.
_load_models(files) ==
    IF files.image = "corrupt"
    THEN [img_model |-> FALSE, aud_model |-> FALSE]
    ELSE [img_model |-> files.image = "valid",
          aud_model |-> files.audio = "valid"]

-----------------------------------------------------------------------------
(* METRIC_REGISTRY *)

\* f"{modality}_{met_name}"
Key(modality, met_name) == modality \o "_" \o met_name

\* the entries that decode both files as 16-bit PCM WAV signals
AudioSignalMetrics ==
    {"audio_mse", "audio_psnr", "audio_snr", "audio_mae", "audio_lsd",
     "audio_perceptual_score"}

\* the entries that decode both files as RGB arrays
ImageArrayMetrics ==
    {"image_mse", "image_psnr", "image_ssim", "image_ber", "image_dssim",
     "image_lpips"}

\* the entries that compare the bytes of the two files
PayloadMetrics ==
    {"audio_bitwise_ber", "audio_byte_accuracy", "audio_exact_match",
     "image_bitwise_ber", "image_byte_accuracy", "image_exact_match"}

\* the entries that compare their two arguments as text
TextMetrics ==
    {"text_similarity", "text_levenshtein", "text_jaccard", "text_exact_match",
     "text_char_accuracy", "text_bitwise_ber"}

\* the keys of METRIC_REGISTRY
METRIC_REGISTRY ==
    AudioSignalMetrics \cup ImageArrayMetrics \cup PayloadMetrics \cup TextMetrics

\* METRIC_REGISTRY[key](ref_path, cmp_path) raises: a file that does not decode
\* (wave.open, Image.open) or two signals of different lengths.  The images of
\* the model have one size; the files exist, so reading their bytes succeeds.
MetricRaises(key, ref_path, cmp_path) ==
    IF key \in AudioSignalMetrics
    THEN \/ Disk(ref_path).fmt # "audio"
         \/ Disk(cmp_path).fmt # "audio"
         \/ Len(LsbStream(ref_path)) # Len(LsbStream(cmp_path))
    ELSE IF key \in ImageArrayMetrics
    THEN Disk(ref_path).fmt # "image" \/ Disk(cmp_path).fmt # "image"
    ELSE FALSE

\* the value METRIC_REGISTRY[key](ref_path, cmp_path) returns, left uncomputed
MetricValue(key, ref_path, cmp_path) == [value_of |-> <<key, ref_path, cmp_path>>]

-----------------------------------------------------------------------------
(* The detection cascade.  A score is kept in thousandths: 1.0 is 1000. *)

\* a stored ai_score
Score(permille) == [permille |-> permille]

ai_score_initHigh == 1000 - 1

\* ai_score = 0.0
ai_score_init == 0

\* ai_score = 1.0
ai_score_gate == 1000

\* AUDIO_LSB_THRESHOLD = 0.455, as a fraction
AUDIO_LSB_THRESHOLD == <<455, 1000>>

\* calculate_gatekeeper_score raises on a file that is no audio
GatekeeperRaises(path) == Disk(path).fmt # "audio"

\* calculate_gatekeeper_score: the fraction of adjacent samples whose least
\* significant bits differ, over len(samples) - 1; as a fraction
calculate_gatekeeper_score(path) ==
    LET lsb == LsbStream(path)
    IN  <<Cardinality({k \in 1..(Len(lsb) - 1) : lsb[k] # lsb[k + 1]}), Len(lsb) - 1>>

GateFiresAt(trans_rate) ==
    /\ trans_rate[2] > 0
    /\ trans_rate[1] * AUDIO_LSB_THRESHOLD[2] >= AUDIO_LSB_THRESHOLD[1] * trans_rate[2]

\* if trans_rate > AUDIO_LSB_THRESHOLD; 0/0 is nan, and no comparison holds of it
GateFires(trans_rate) ==
    /\ trans_rate[2] > 0
    /\ trans_rate[1] * AUDIO_LSB_THRESHOLD[2] > AUDIO_LSB_THRESHOLD[1] * trans_rate[2]

\* extract_audio_features: the 8 features of the file, None for a file that
\* is no audio
extract_audio_features(path) ==
    IF Disk(path).fmt = "audio"
    THEN [null |-> FALSE, modality |-> "audio", of |-> path]
    ELSE [null |-> TRUE, modality |-> "audio", of |-> path]

\* extract_image_features: the 6 features of the file, None for a file that
\* is no image
extract_image_features(path) ==
    IF Disk(path).fmt = "image"
    THEN [null |-> FALSE, modality |-> "image", of |-> path]
    ELSE [null |-> TRUE, modality |-> "image", of |-> path]

\* model.predict_proba(features)[0][1] of the two trained classifiers, in
\* thousandths: the classifiers are data, these two stand for them
predict_proba(features) ==
    IF features.modality = "audio"
    THEN 5 * calculate_gatekeeper_score(features.of)[1]
    ELSE 10 * Cardinality(Disk(features.of).hash) + 7

\* predict_proba raises when the pickled classifier does not take the feature
\* vector it is handed
PredictRaises == ~model_fits

\* a call made while a row is built
Call(modality, fn) == [modality |-> modality, fn |-> fn]

\* the outcome of a cascade: the ai_score, the calls made, and whether the
\* try block was left by an exception or found no features
Outcome(score, calls, failed) == [score |-> score, calls |-> calls, failed |-> failed]

\* the try block of the audio ai_detection
AudioCascade(cmp_path, model) ==
    LET gk == Call("audio", "calculate_gatekeeper_score")
        ex == Call("audio", "extract_audio_features")
        pp == Call("audio", "predict_proba")
    IN  IF GatekeeperRaises(cmp_path)
        THEN Outcome(ai_score_init, {gk}, TRUE)
        ELSE IF GateFires(calculate_gatekeeper_score(cmp_path))
        THEN Outcome(ai_score_gate, {gk}, FALSE)
        ELSE IF model
        THEN LET features == extract_audio_features(cmp_path)
             IN  IF features.null
                 THEN Outcome(ai_score_init, {gk, ex}, TRUE)
                 ELSE IF PredictRaises
                 THEN Outcome(ai_score_init, {gk, ex, pp}, TRUE)
                 ELSE Outcome(predict_proba(features), {gk, ex, pp}, FALSE)
        ELSE Outcome(ai_score_init, {gk}, FALSE)

\* the try block of the image ai_detection
ImageCascade(target_img, model) ==
    LET ex == Call("image", "extract_image_features")
        pp == Call("image", "predict_proba")
    IN  IF model
        THEN LET features == extract_image_features(target_img)
             IN  IF features.null
                 THEN Outcome(ai_score_init, {ex}, TRUE)
                 ELSE IF PredictRaises
                 THEN Outcome(ai_score_init, {ex, pp}, TRUE)
                 ELSE Outcome(predict_proba(features), {ex, pp}, FALSE)
        ELSE Outcome(ai_score_init, {}, FALSE)

-----------------------------------------------------------------------------
(* MetricWorker.run: one row.  While it is built a row carries, next to id,
   metrics and pairs, the calls made for it and the exception that escaped. *)

NewRow(gid) ==
    [id |-> gid, metrics |-> <<>>, pairs |-> <<>>,
     calls |-> {}, raised |-> FALSE, msg |-> ""]

\* d[key] on a dict without that key: KeyError(key), whose str is repr(key)
KeyError(r, key) == [r EXCEPT !.raised = TRUE, !.msg = "'" \o key \o "'"]

MetricTryKeep(r, modality, key, ref_path, cmp_path) ==
    LET called == [r EXCEPT !.calls = @ \cup {Call(modality, key)}]
    IN  IF MetricRaises(key, ref_path, cmp_path)
        THEN [called EXCEPT !.metrics = Put(@, key, [value_of |-> <<key>>])]
        ELSE [called EXCEPT !.metrics =
                    Put(@, key, MetricValue(key, ref_path, cmp_path))]

\* try: row["metrics"][key] = METRIC_REGISTRY[key](ref_path, cmp_path)
\* except: pass (for text: print)
MetricTry(r, modality, key, ref_path, cmp_path) ==
    LET called == [r EXCEPT !.calls = @ \cup {Call(modality, key)}]
    IN  IF MetricRaises(key, ref_path, cmp_path)
        THEN called
        ELSE [called EXCEPT !.metrics =
                    Put(@, key, MetricValue(key, ref_path, cmp_path))]

InRegistryAny(key) == TRUE

\* if key in METRIC_REGISTRY
InRegistry(key) == key \in METRIC_REGISTRY

\* for met_name in self.metrics[modality]; skip_ai is the
\* 'if met_name == "ai_detection": continue' of the audio and image loops
RECURSIVE RegistryLoop(_, _, _, _, _, _, _)
RegistryLoop(r, modality, names, k, ref_path, cmp_path, skip_ai) ==
    IF k > Len(names) THEN r
    ELSE IF skip_ai /\ names[k] = "ai_detection"
    THEN RegistryLoop(r, modality, names, k + 1, ref_path, cmp_path, skip_ai)
    ELSE IF InRegistry(Key(modality, names[k]))
    THEN RegistryLoop(MetricTry(r, modality, Key(modality, names[k]), ref_path, cmp_path),
                      modality, names, k + 1, ref_path, cmp_path, skip_ai)
    ELSE RegistryLoop(r, modality, names, k + 1, ref_path, cmp_path, skip_ai)

StoreAiUnlessFailed(r, modality, ai) ==
    IF ai.failed
    THEN [r EXCEPT !.calls = @ \cup ai.calls \cup {Call(modality, "ai_detection")}]
    ELSE [r EXCEPT !.metrics = Put(@, Key(modality, "ai_detection"), Score(ai.score)),
                   !.calls = @ \cup ai.calls \cup {Call(modality, "ai_detection")}]

\* row["metrics"][f"{modality}_ai_detection"] = ai_score, after the try block
StoreAi(r, modality, ai) ==
    [r EXCEPT !.metrics = Put(@, Key(modality, "ai_detection"), Score(ai.score)),
              !.calls = @ \cup ai.calls \cup {Call(modality, "ai_detection")}]

\* target_img / target_text: <<path>>, or <<>> for None
Target(data) ==
    IF Len(data.stego) > 0 THEN <<data.stego[1]>>
    ELSE IF Len(data.extract) > 0 THEN <<data.extract[1]>>
    ELSE <<>>

\* "1. AUDIO METRICS"
AudioBlock(r, data) ==
    IF r.raised THEN r
    ELSE IF r.id \in DOMAIN final_refs.audio /\ Len(data.stego) > 0
    THEN LET ref_path == final_refs.audio[r.id]
             cmp_path == data.stego[1]
             r1 == [r EXCEPT !.pairs = Put(@, "audio", <<ref_path, cmp_path>>)]
         IN  IF "audio" \notin DOMAIN metrics THEN KeyError(r1, "audio")
             ELSE IF Len(metrics.audio) > 0
             THEN LET r2 == RegistryLoop(r1, "audio", metrics.audio, 1,
                                         ref_path, cmp_path, TRUE)
                  IN  IF "ai_detection" \in Range(metrics.audio)
                      THEN StoreAi(r2, "audio", AudioCascade(cmp_path, aud_model))
                      ELSE r2
             ELSE r1
    ELSE r

\* "2. IMAGE METRICS"
ImageBlock(r, data) ==
    IF r.raised THEN r
    ELSE IF r.id \in DOMAIN final_refs.image /\ Len(Target(data)) > 0
    THEN LET ref_path == final_refs.image[r.id]
             target_img == Target(data)[1]
             r1 == [r EXCEPT !.pairs = Put(@, "image", <<ref_path, target_img>>)]
         IN  IF "image" \notin DOMAIN metrics THEN KeyError(r1, "image")
             ELSE IF Len(metrics.image) > 0
             THEN LET r2 == RegistryLoop(r1, "image", metrics.image, 1,
                                         ref_path, target_img, TRUE)
                  IN  IF "ai_detection" \in Range(metrics.image)
                      THEN StoreAi(r2, "image", ImageCascade(target_img, img_model))
                      ELSE r2
             ELSE r1
    ELSE r

\* "3. TEXT METRICS"
TextBlock(r, data) ==
    IF r.raised THEN r
    ELSE IF "text" \notin DOMAIN metrics THEN KeyError(r, "text")
    ELSE IF /\ Len(metrics.text) > 0
            /\ r.id \in DOMAIN final_refs.text
            /\ Len(Target(data)) > 0
    THEN LET ref_path == final_refs.text[r.id]
             target_text == Target(data)[1]
             r1 == [r EXCEPT !.pairs = Put(@, "text", <<ref_path, target_text>>)]
         IN  RegistryLoop(r1, "text", metrics.text, 1, ref_path, target_text, FALSE)
    ELSE r

\* the body of the loop up to data_rows.append(row)
BuildRow(gid, data) == TextBlock(ImageBlock(AudioBlock(NewRow(gid), data), data), data)

\* the dict that is appended to data_rows
RowDict(r) == [id |-> r.id, metrics |-> r.metrics, pairs |-> r.pairs]

ErrorSignalWithRows(msg, rows) == [sig |-> "error", int |-> 0, rows |-> rows, msg |-> msg]

\* self.error.emit(str(e)); rows is the data_rows built so far
ErrorSignal(msg, rows) == [sig |-> "error", int |-> 0, rows |-> <<>>, msg |-> msg]

AppendRowOnce(rows, row) == IF Len(rows) = 0 THEN <<row>> ELSE rows

\* data_rows.append(row)
AppendRow(rows, row) == Append(rows, row)

NoGroupsNever(total_groups) == FALSE

\* if total_groups == 0
NoGroups(total_groups) == total_groups = 0

-----------------------------------------------------------------------------
(* MetricWorker: the actions *)

\* MetricWorker(refs, groups, metrics) on the two results of group_files_smart,
\* whose locals are gone; __init__ ends with _load_models()
Construct ==
    /\ pc = "returned"
    /\ metrics' = requested
    /\ img_model' = _load_models(model_files).img_model
    /\ aud_model' = _load_models(model_files).aud_model
    /\ pc' = "constructed"
    /\ originals' = <<>> /\ stegos' = <<>> /\ extracts' = <<>>
    /\ orig_entries' = <<>> /\ global_id_counter' = 1 /\ i' = 1 /\ visited' = <<>>
    /\ UNCHANGED <<final_refs, groups, order, run_i, data_rows, emitted, attempted>>
    /\ UNCHANGED evars

\* run, up to the loop
RunStart ==
    /\ pc = "constructed"
    /\ data_rows' = <<>>
    /\ attempted' = <<>>
    /\ IF NoGroups(Cardinality(DOMAIN groups))
       THEN /\ emitted' = emitted \o <<Signal("progress", 100, <<>>),
                                       Signal("finished", 0, <<>>)>>
            /\ pc' = "done"
            /\ UNCHANGED <<order, run_i>>
       ELSE /\ order' = sorted(DOMAIN groups)
            /\ run_i' = 1
            /\ pc' = "loop"
            /\ UNCHANGED emitted
    /\ UNCHANGED gvars
    /\ UNCHANGED evars
    /\ UNCHANGED <<final_refs, groups, metrics, img_model, aud_model>>

\* one iteration of the loop over the sorted items: the row is built and
\* appended and the progress is emitted, or an exception leaves the loop for
\* the except clause of run
RunGroup ==
    /\ pc = "loop"
    /\ run_i <= Len(order)
    /\ LET gid == order[run_i]
           r == BuildRow(gid, groups[gid])
       IN  IF r.raised
           THEN /\ emitted' = Append(emitted, ErrorSignal(r.msg, data_rows))
                /\ pc' = "done"
                /\ UNCHANGED <<data_rows, attempted, run_i>>
           ELSE /\ data_rows' = AppendRow(data_rows, RowDict(r))
                /\ attempted' = Append(attempted, r.calls)
                /\ emitted' = Append(emitted,
                        Signal("progress", progress_percent(run_i, Len(order)), <<>>))
                /\ run_i' = run_i + 1
                /\ pc' = pc
    /\ UNCHANGED gvars
    /\ UNCHANGED evars
    /\ UNCHANGED <<final_refs, groups, metrics, img_model, aud_model, order>>

\* self.finished.emit(data_rows)
RunFinish ==
    /\ pc = "loop"
    /\ run_i > Len(order)
    /\ emitted' = Append(emitted, Signal("finished", 0, data_rows))
    /\ pc' = "done"
    /\ UNCHANGED gvars
    /\ UNCHANGED evars
    /\ UNCHANGED <<final_refs, groups, metrics, img_model, aud_model, order, run_i,
                   data_rows, attempted>>

Next ==
    \/ Enter \/ VisitStego \/ EndStegos \/ VisitExtract \/ Return
    \/ Construct \/ RunStart \/ RunGroup \/ RunFinish

Spec == Init /\ [][Next]_vars

-----------------------------------------------------------------------------
(* Properties of group_files_smart *)

Modalities == {"image", "audio", "text"}

\* the locals of group_files_smart exist: the call is running or has just ended
InCall == pc \in {"stego", "extract", "returned", "raised"}

\* the iterations so far that accepted / dropped their candidate
AcceptedIdx == {k \in DOMAIN visited : visited[k].match # 0}
DroppedIdx == {k \in DOMAIN visited : visited[k].match = 0}
AcceptedUpTo(k) == {j \in AcceptedIdx : j <= k}

\* the paths a group holds
Members(g) == Range(g.stego) \cup Range(g.extract)

\* the modalities under which references holds an entry for gid
RefModalities(gid) == {t \in Modalities : gid \in DOMAIN final_refs[t]}

\* the candidates in the order the two loops visit them
VisitOrder == stegos \o extracts

(* C1: the group ids come from one counter that starts at 1 and advances by
   one per accepted candidate and never for a dropped one: after k accepted
   candidates the counter is k + 1, the group ids are exactly str(1)..str(k),
   the j-th accepted candidate has id str(j), and each id has exactly one
   reference entry, under one modality, holding the path of the original the
   candidate was matched to. *)
C1_IdsFromOneCounter ==
    InCall =>
        /\ global_id_counter = Cardinality(AcceptedIdx) + 1
        /\ DOMAIN groups = {str(n) : n \in 1..Cardinality(AcceptedIdx)}
        /\ \A t \in Modalities : DOMAIN final_refs[t] \subseteq DOMAIN groups
        /\ \A k \in AcceptedIdx :
              LET gid == visited[k].gid
              IN  /\ gid = str(Cardinality(AcceptedUpTo(k)))
                  /\ Cardinality(RefModalities(gid)) = 1
                  /\ \A t \in RefModalities(gid) :
                        final_refs[t][gid] = originals[visited[k].match]

C1_Witness ==
    /\ pc = "returned"
    /\ Cardinality(AcceptedIdx) >= 2
    /\ DroppedIdx # {}
    /\ Cardinality({t \in Modalities : DOMAIN final_refs[t] # {}}) >= 2

(* C2: the candidates are visited in list order, all of stegos before all of
   extracts; of two accepted candidates the one visited earlier has the
   smaller id, so every group holding a stego path has a smaller id than
   every group holding an extract path. *)
C2_VisitOrderGivesIdOrder ==
    InCall =>
        /\ Len(visited) <= Len(VisitOrder)
        /\ \A k \in DOMAIN visited :
              /\ visited[k].path = VisitOrder[k]
              /\ visited[k].kind = IF k <= Len(stegos) THEN "stego" ELSE "extract"
        /\ \A a, b \in AcceptedIdx :
              a < b => int(visited[a].gid) < int(visited[b].gid)
        /\ \A g1, g2 \in DOMAIN groups :
              (Len(groups[g1].stego) > 0 /\ Len(groups[g2].extract) > 0)
                  => int(g1) < int(g2)

C2_Witness ==
    /\ pc = "returned"
    /\ \E a, b \in AcceptedIdx :
          /\ a < b
          /\ visited[a].kind = "stego"
          /\ visited[b].kind = "extract"
          /\ visited[a].match > visited[b].match
    /\ \E a, b \in AcceptedIdx : a < b /\ visited[a].kind = visited[b].kind

\* the step is a loop iteration that drops its candidate
DropStep ==
    /\ pc \in {"stego", "extract"}
    /\ Len(visited') = Len(visited) + 1
    /\ visited'[Len(visited')].match = 0

(* C3: a candidate that neither stage accepts is dropped silently: the
   iteration raises nothing and goes on, changes neither groups nor the
   references nor the counter; the dropped path is in no group, and the next
   accepted candidate gets the id the dropped one would have had. *)
C3_DropIsSilent ==
    /\ [][DropStep => /\ pc' = pc
                      /\ i' = i + 1
                      /\ groups' = groups
                      /\ final_refs' = final_refs
                      /\ global_id_counter' = global_id_counter]_vars
    /\ [](InCall =>
            \A d \in DroppedIdx :
                /\ \A gid \in DOMAIN groups : visited[d].path \notin Members(groups[gid])
                /\ \A k \in AcceptedIdx :
                      (k > d /\ \A j \in AcceptedIdx : ~(d < j /\ j < k))
                          => visited[k].gid = str(Cardinality(AcceptedUpTo(d)) + 1))

C3_Witness ==
    /\ pc = "returned"
    /\ \E a, d, b \in DOMAIN visited :
          /\ a < d /\ d < b
          /\ a \in AcceptedIdx /\ d \in DroppedIdx /\ b \in AcceptedIdx
          /\ visited[b].gid = str(2)

-----------------------------------------------------------------------------
(* Properties of find_best_original, stated on the sets of originals *)

\* the image / audio originals that have a fingerprint
ImgElig == {k \in DOMAIN orig_entries :
                orig_entries[k].type = "image" /\ ~orig_entries[k].fingerprint.null}
AudElig == {k \in DOMAIN orig_entries :
                orig_entries[k].type = "audio" /\ ~orig_entries[k].fingerprint.null}
\* the originals of the candidate's modality
SameMod(path) == {k \in DOMAIN orig_entries : orig_entries[k].type = TypeOf(path)}

HasHash(path) == TypeOf(path) = "image" /\ ~calculate_phash(path).null
HasVector(path) == TypeOf(path) = "audio" /\ ~calculate_audio_fingerprint(path).null

Dist(path, k) == Hamming(calculate_phash(path).hash, orig_entries[k].fingerprint.hash)
MinDist(path) == CHOOSE d \in {Dist(path, k) : k \in ImgElig} :
                    \A k \in ImgElig : d <= Dist(path, k)

\* the squared similarity to original k, as a fraction
Sim(path, k) == Similarity(calculate_audio_fingerprint(path).vec,
                           orig_entries[k].fingerprint.vec)
FracGreater(a, b) == a[1] * b[2] > b[1] * a[2]
FracEqual(a, b) == a[1] * b[2] = b[1] * a[2]
\* similarity > 0.90, = 0.90
Above90(a) == 100 * a[1] > 81 * a[2]
Exactly90(a) == 100 * a[1] = 81 * a[2]
\* k has the maximum similarity
IsMaxSim(path, k) == \A j \in AudElig : ~FracGreater(Sim(path, j), Sim(path, k))

Overlap(path, k) == Cardinality(orig_entries[k].tokens \cap get_tokens(path))

(* C4: for an image candidate with a hash, the fingerprint stage takes the
   image original with a hash at the minimum Hamming distance and accepts
   it only if that minimum is below 12; at a minimum of exactly 12 (or more)
   the fingerprint stage accepts nothing. *)
C4_ImageStageBelow12 ==
    InCall =>
        \A k \in DOMAIN visited :
            LET v == visited[k]
            IN  HasHash(v.path) =>
                    IF ImgElig # {} /\ MinDist(v.path) < 12
                    THEN /\ v.stage = "fingerprint"
                         /\ v.match \in ImgElig
                         /\ Dist(v.path, v.match) = MinDist(v.path)
                    ELSE v.stage # "fingerprint"

C4_Witness ==
    /\ InCall
    /\ \E k \in DOMAIN visited :
          /\ HasHash(visited[k].path) /\ ImgElig # {}
          /\ MinDist(visited[k].path) = 12
          /\ visited[k].stage # "fingerprint"
    /\ \E k \in DOMAIN visited :
          /\ HasHash(visited[k].path)
          /\ visited[k].stage = "fingerprint"
          /\ \E j \in ImgElig : j < visited[k].match

(* C5: for an audio candidate with a fingerprint, the fingerprint stage takes
   the audio original with a fingerprint of maximum cosine similarity and
   accepts it only if that maximum is above 0.90; at a maximum of exactly
   0.90 the fingerprint stage accepts nothing. *)
C5_AudioStageAbove90 ==
    InCall =>
        \A k \in DOMAIN visited :
            LET v == visited[k]
            IN  HasVector(v.path) =>
                    IF \E j \in AudElig : Above90(Sim(v.path, j))
                    THEN /\ v.stage = "fingerprint"
                         /\ v.match \in AudElig
                         /\ IsMaxSim(v.path, v.match)
                    ELSE v.stage # "fingerprint"

C5_Witness ==
    /\ InCall
    /\ \E k \in DOMAIN visited :
          /\ HasVector(visited[k].path)
          /\ \E j \in AudElig : Exactly90(Sim(visited[k].path, j))
          /\ \A j \in AudElig : ~Above90(Sim(visited[k].path, j))
          /\ visited[k].stage # "fingerprint"
    /\ \E k \in DOMAIN visited :
          /\ HasVector(visited[k].path)
          /\ visited[k].stage = "fingerprint"
          /\ \E j \in AudElig : j < visited[k].match

\* the fingerprint stage has an original to accept
FpAccepts(path) ==
    \/ HasHash(path) /\ ImgElig # {} /\ MinDist(path) < 12
    \/ HasVector(path) /\ \E j \in AudElig : Above90(Sim(path, j))

\* k is the best original of the fingerprint stage
IsFpBest(path, k) ==
    IF HasHash(path) THEN k \in ImgElig /\ Dist(path, k) = MinDist(path)
    ELSE k \in AudElig /\ IsMaxSim(path, k)

(* C6: when the fingerprint stage accepted nothing (a text candidate, no
   candidate fingerprint, or a best original that fails the threshold) the
   token stage decides: the original of the candidate's modality with the
   largest token overlap, accepted iff that overlap is > 0.  When the
   fingerprint stage accepted an original, that original is the result
   whatever the tokens say. *)
C6_TokenFallback ==
    InCall =>
        \A k \in DOMAIN visited :
            LET v == visited[k]
            IN  IF FpAccepts(v.path)
                THEN v.stage = "fingerprint" /\ IsFpBest(v.path, v.match)
                ELSE IF \E j \in SameMod(v.path) : Overlap(v.path, j) > 0
                THEN /\ v.stage = "token"
                     /\ v.match \in SameMod(v.path)
                     /\ \A j \in SameMod(v.path) :
                            Overlap(v.path, j) <= Overlap(v.path, v.match)
                ELSE v.stage = "none" /\ v.match = 0

C6_Witness ==
    /\ InCall
    \* accepted by fingerprint although another original has the larger overlap
    /\ \E k \in DOMAIN visited :
          /\ visited[k].stage = "fingerprint"
          /\ \E j \in SameMod(visited[k].path) :
                Overlap(visited[k].path, j) > Overlap(visited[k].path, visited[k].match)
    \* a fingerprint that fails the threshold, then accepted by tokens
    /\ \E k \in DOMAIN visited :
          /\ HasHash(visited[k].path) /\ ImgElig # {}
          /\ visited[k].stage = "token"

\* the same, for a candidate without fingerprint and for a text candidate
C6_WitnessNoFingerprint ==
    /\ InCall
    /\ \E k \in DOMAIN visited :
          /\ TypeOf(visited[k].path) = "image" /\ ~HasHash(visited[k].path)
          /\ visited[k].stage = "token"
    /\ \E k \in DOMAIN visited :
          /\ TypeOf(visited[k].path) = "text"
          /\ visited[k].stage = "token"

(* C7: of several originals that tie for the best value of a stage (equal
   minimum distance, equal maximum similarity, equal maximum overlap) the one
   first in the originals list is returned. *)
C7_TiesKeepFirst ==
    InCall =>
        \A k \in AcceptedIdx :
            LET v == visited[k]
            IN  /\ (v.stage = "fingerprint" /\ HasHash(v.path)) =>
                        \A j \in ImgElig :
                            Dist(v.path, j) = Dist(v.path, v.match) => v.match <= j
                /\ (v.stage = "fingerprint" /\ HasVector(v.path)) =>
                        \A j \in AudElig :
                            FracEqual(Sim(v.path, j), Sim(v.path, v.match)) => v.match <= j
                /\ v.stage = "token" =>
                        \A j \in SameMod(v.path) :
                            Overlap(v.path, j) = Overlap(v.path, v.match) => v.match <= j

C7_Witness ==
    /\ InCall
    /\ \E k \in AcceptedIdx :
          /\ visited[k].stage = "fingerprint" /\ HasHash(visited[k].path)
          /\ \E j \in ImgElig :
                /\ j # visited[k].match
                /\ Dist(visited[k].path, j) = Dist(visited[k].path, visited[k].match)
    /\ \E k \in AcceptedIdx :
          /\ visited[k].stage = "token"
          /\ \E j \in SameMod(visited[k].path) :
                /\ j # visited[k].match
                /\ Overlap(visited[k].path, j) = Overlap(visited[k].path, visited[k].match)

\* the same, for the audio stage
C7_WitnessAudio ==
    /\ InCall
    /\ \E k \in AcceptedIdx :
          /\ visited[k].stage = "fingerprint" /\ HasVector(visited[k].path)
          /\ \E j \in AudElig :
                /\ j # visited[k].match
                /\ FracEqual(Sim(visited[k].path, j), Sim(visited[k].path, visited[k].match))

(* C8: a candidate is matched only to an original of its own modality: for
   every group id, the modality its reference is stored under is the modality
   of the candidate's extension and of the reference's extension. *)
C8_SameModality ==
    (InCall \/ pc \in {"constructed", "loop", "done"}) =>
        \A gid \in DOMAIN groups :
            /\ RefModalities(gid) # {}
            /\ \A t \in RefModalities(gid) :
                  /\ TypeOf(final_refs[t][gid]) = t
                  /\ \A p \in Members(groups[gid]) : TypeOf(p) = t

C8_Witness ==
    /\ pc = "returned"
    /\ Cardinality({t \in Modalities : DOMAIN final_refs[t] # {}}) >= 2
    \* a dropped candidate that shares a token with an original of another modality
    /\ \E d \in DroppedIdx : \E j \in DOMAIN orig_entries :
          /\ orig_entries[j].type # TypeOf(visited[d].path)
          /\ Overlap(visited[d].path, j) > 0

(* C9: a stego candidate and an extract candidate matched to the same
   original get two groups with two ids, each holding its one candidate, and
   both ids refer to that original; a matched original stays in the pool. *)
C9_SameOriginalTwoGroups ==
    InCall =>
        \A a, b \in AcceptedIdx :
            (/\ visited[a].kind = "stego"
             /\ visited[b].kind = "extract"
             /\ visited[a].match = visited[b].match) =>
                LET ga == visited[a].gid
                    gb == visited[b].gid
                    t == orig_entries[visited[a].match].type
                IN  /\ ga # gb
                    /\ groups[ga] = [stego |-> <<visited[a].path>>, extract |-> <<>>]
                    /\ groups[gb] = [stego |-> <<>>, extract |-> <<visited[b].path>>]
                    /\ ga \in DOMAIN final_refs[t] /\ gb \in DOMAIN final_refs[t]
                    /\ final_refs[t][ga] = originals[visited[a].match]
                    /\ final_refs[t][gb] = originals[visited[a].match]

C9_Witness ==
    /\ pc = "returned"
    /\ \E a, b \in AcceptedIdx :
          /\ visited[a].kind = "stego"
          /\ visited[b].kind = "extract"
          /\ visited[a].match = visited[b].match
          /\ visited[a].path # visited[b].path

-----------------------------------------------------------------------------
(* Properties of MetricWorker.run *)

\* the rows are in the order the relation less puts their ids in
RowsOrderedBy(less(_, _), rows) ==
    \A a, b \in DOMAIN rows : a < b => less(rows[a].id, rows[b].id)

NumLess(s, t) == int(s) < int(t)

\* the row lists delivered on the finished signal
FinishedLists == {emitted[k].rows : k \in {j \in DOMAIN emitted : emitted[j].sig = "finished"}}

(* C10: run processes the groups, and delivers their rows in the finished
   list, in ascending numeric order of the group id, for any number of
   groups. *)
C10_RowsInNumericOrder ==
    pc \in {"loop", "done"} =>
        /\ RowsOrderedBy(NumLess, data_rows)
        /\ \A rows \in FinishedLists : RowsOrderedBy(NumLess, rows)

\* what run does: the rows are in the order of the ids as strings, which is the
\* numeric order as long as there are fewer than 10 groups
RowsInStringOrder ==
    pc \in {"loop", "done"} =>
        /\ RowsOrderedBy(StrLess, data_rows)
        /\ \A rows \in FinishedLists : RowsOrderedBy(StrLess, rows)
        /\ Cardinality(DOMAIN groups) < 10 => RowsOrderedBy(NumLess, data_rows)

-----------------------------------------------------------------------------
(* Properties of MetricWorker: signals, rows, the cascade, the models *)

\* a worker exists
RunPhase == pc \in {"constructed", "loop", "done"}

\* run is in its loop or has ended
InRun == pc \in {"loop", "done"}

\* the values emitted on the progress signal, in order
ProgressValues ==
    LET sent == SelectSeq(emitted, LAMBDA s : s.sig = "progress")
    IN  [k \in DOMAIN sent |-> sent[k].int]

\* the positions of the terminal signals
TerminalIdx == {k \in DOMAIN emitted : emitted[k].sig \in {"finished", "error"}}

\* the signal emitted last
LastSignal == emitted[Len(emitted)]

\* run has ended with finished
Finished == pc = "done" /\ LastSignal.sig = "finished"

\* the selection dict has its three keys
WellFormed(sel) == Modalities \subseteq DOMAIN sel

\* the registry keys the selection asks for under a modality
RegistryKeys(modality) ==
    {Key(modality, metrics[modality][j]) : j \in DOMAIN metrics[modality]}
        \cap METRIC_REGISTRY

\* trans_rate > 0.455
Above455(rate) == 1000 * rate[1] > 455 * rate[2]
Exactly455(rate) == 1000 * rate[1] = 455 * rate[2]

(* C11: a run over zero groups emits progress(100) once, then finished with
   the empty list once, and nothing else: it never enters the loop and never
   emits error. *)
C11_EmptyRun ==
    (RunPhase /\ DOMAIN groups = {}) =>
        /\ pc # "loop"
        /\ \A k \in DOMAIN emitted : emitted[k].sig # "error"
        /\ pc = "constructed" => emitted = <<>>
        /\ pc = "done" => emitted = <<Signal("progress", 100, <<>>),
                                      Signal("finished", 0, <<>>)>>

C11_Witness ==
    /\ pc = "done"
    /\ DOMAIN groups = {}
    /\ Len(emitted) = 2
    /\ ~WellFormed(metrics)

(* C12: over a non-empty group set the progress signal carries one value per
   processed group, each an integer in 0..100, in non-decreasing order; when
   the run ends with finished there is one value per group and the last one
   is exactly 100. *)
C12_ProgressSequence ==
    (InRun /\ DOMAIN groups # {}) =>
        LET sent == ProgressValues
        IN  /\ Len(sent) = Len(data_rows)
            /\ \A k \in DOMAIN sent : sent[k] \in 0..100
            /\ \A a, b \in DOMAIN sent : a < b => sent[a] <= sent[b]
            /\ Finished => /\ Len(sent) = Cardinality(DOMAIN groups)
                           /\ sent[Len(sent)] = 100

C12_Witness ==
    /\ Finished
    /\ Cardinality(DOMAIN groups) >= 3
    /\ Cardinality(Range(ProgressValues)) >= 3

(* C13 as stated: the value emitted after the n-th of N groups is
   round(100 * n / N), the nearest integer. *)
C13_ProgressIsRounded ==
    (InRun /\ DOMAIN groups # {}) =>
        \A n \in DOMAIN ProgressValues :
            ProgressValues[n] = progress_percentRound(n, Cardinality(DOMAIN groups))

(* C13, amended: the value emitted after the n-th of N groups is 100 * n / N
   truncated to an integer: the largest v with v * N <= 100 * n. *)
C13_ProgressIsTruncated ==
    (InRun /\ DOMAIN groups # {}) =>
        \A n \in DOMAIN ProgressValues :
            LET v == ProgressValues[n]
                N == Cardinality(DOMAIN groups)
            IN  v * N <= 100 * n /\ 100 * n < (v + 1) * N

C13_Witness ==
    /\ Finished
    /\ Cardinality(DOMAIN groups) = 3
    /\ ProgressValues = <<33, 66, 100>>

(* C14: per-metric isolation.  In every row, each requested registry metric of
   a modality that has a pair is stored with its value unless its function
   raises, and then its key is absent from the row; a raising metric changes
   nothing else: with a well-formed selection the run ends with finished,
   delivering one row per group. *)
C14_MetricIsolation ==
    InRun =>
        /\ \A k \in DOMAIN data_rows :
              LET row == data_rows[k]
              IN  \A modality \in DOMAIN row.pairs :
                      \A key \in RegistryKeys(modality) :
                          LET ref_path == row.pairs[modality][1]
                              cmp_path == row.pairs[modality][2]
                          IN  IF MetricRaises(key, ref_path, cmp_path)
                              THEN key \notin DOMAIN row.metrics
                              ELSE /\ key \in DOMAIN row.metrics
                                   /\ row.metrics[key] = MetricValue(key, ref_path, cmp_path)
        /\ (pc = "done" /\ WellFormed(metrics) /\ DOMAIN groups # {}) =>
              /\ LastSignal = Signal("finished", 0, data_rows)
              /\ Len(data_rows) = Cardinality(DOMAIN groups)

C14_Witness ==
    /\ Finished
    /\ \E k, j \in DOMAIN data_rows :
          /\ k # j
          \* in row k one metric raised and another was stored
          /\ \E modality \in DOMAIN data_rows[k].pairs :
                /\ \E key \in RegistryKeys(modality) :
                      /\ Call(modality, key) \in attempted[k]
                      /\ key \notin DOMAIN data_rows[k].metrics
                /\ \E key \in RegistryKeys(modality) : key \in DOMAIN data_rows[k].metrics
          \* in row j every requested registry metric was stored
          /\ \E modality \in DOMAIN data_rows[j].pairs :
                /\ RegistryKeys(modality) # {}
                /\ RegistryKeys(modality) \subseteq DOMAIN data_rows[j].metrics

\* audio_mse raised on two recordings of different lengths, whose fingerprints
\* are binned; the payload metric of the row was stored
C14_WitnessLength ==
    /\ Finished
    /\ \E k \in DOMAIN data_rows :
          /\ "audio" \in DOMAIN data_rows[k].pairs
          /\ Len(LsbStream(data_rows[k].pairs["audio"][1])) #
                Len(LsbStream(data_rows[k].pairs["audio"][2]))
          /\ Disk(data_rows[k].pairs["audio"][1]).vec.bins > n_bins
          /\ Call("audio", "audio_mse") \in attempted[k]
          /\ "audio_mse" \notin DOMAIN data_rows[k].metrics
          /\ "audio_exact_match" \in DOMAIN data_rows[k].metrics

\* a key the selection dict lacks is looked up while some group is processed
MissingKeyHit ==
    \E gid \in DOMAIN groups :
        \/ "text" \notin DOMAIN metrics
        \/ /\ "audio" \notin DOMAIN metrics
           /\ gid \in DOMAIN final_refs.audio
           /\ Len(groups[gid].stego) > 0
        \/ /\ "image" \notin DOMAIN metrics
           /\ gid \in DOMAIN final_refs.image
           /\ Members(groups[gid]) # {}

(* C15: a run emits exactly one terminal signal, finished or error, and
   nothing after it.  When an exception escapes the per-metric try blocks
   (a selection dict without a key that is looked up) the terminal signal is
   error, carrying str of the KeyError, and the rows built so far are on no
   signal; otherwise it is finished. *)
C15_OneTerminalSignal ==
    /\ Cardinality(TerminalIdx) <= 1
    /\ \A k \in TerminalIdx : k = Len(emitted) /\ pc = "done"
    /\ pc = "done" => Cardinality(TerminalIdx) = 1
    /\ \A k \in DOMAIN emitted : emitted[k].sig # "finished" => emitted[k].rows = <<>>
    /\ pc = "done" =>
          IF MissingKeyHit
          THEN /\ LastSignal.sig = "error"
               /\ \E key \in Modalities \ DOMAIN metrics :
                     LastSignal.msg = "'" \o key \o "'"
          ELSE LastSignal.sig = "finished"

C15_Witness ==
    /\ pc = "done"
    /\ LastSignal.sig = "error"
    /\ Len(data_rows) >= 1
    /\ Len(ProgressValues) >= 1

(* C16 as stated: for each modality a group has a reference of (and metrics
   are requested for), the comparison candidate is the first stego path when
   there is one and otherwise the first extract path: a group with only an
   extract entry is compared against it, for every modality. *)
C16_CandidateFallsBackToExtract ==
    InRun =>
        \A k \in DOMAIN data_rows :
            LET row == data_rows[k]
                data == groups[row.id]
            IN  \A modality \in Modalities :
                    (/\ row.id \in DOMAIN final_refs[modality]
                     /\ Len(metrics[modality]) > 0
                     /\ Members(data) # {}) =>
                        /\ modality \in DOMAIN row.pairs
                        /\ row.pairs[modality][2] =
                              IF Len(data.stego) > 0 THEN data.stego[1]
                              ELSE data.extract[1]

\* what run does: image and text fall back to the extract entry, audio is
\* compared against a stego entry only
CandidateAsCoded ==
    InRun =>
        \A k \in DOMAIN data_rows :
            LET row == data_rows[k]
                data == groups[row.id]
            IN  /\ \A modality \in DOMAIN row.pairs :
                      /\ row.id \in DOMAIN final_refs[modality]
                      /\ row.pairs[modality][1] = final_refs[modality][row.id]
                      /\ row.pairs[modality][2] =
                            IF Len(data.stego) > 0 THEN data.stego[1]
                            ELSE data.extract[1]
                /\ "audio" \in DOMAIN row.pairs <=>
                      (row.id \in DOMAIN final_refs.audio /\ Len(data.stego) > 0)
                /\ "image" \in DOMAIN row.pairs <=>
                      (row.id \in DOMAIN final_refs.image /\ Members(data) # {})
                /\ "text" \in DOMAIN row.pairs <=>
                      (/\ row.id \in DOMAIN final_refs.text
                       /\ Members(data) # {}
                       /\ Len(metrics.text) > 0)

(* C17 as stated: in every row a modality key is in pairs if and only if at
   least one metric of that modality was requested and attempted for the
   row. *)
C17_PairsIffAttempted ==
    InRun =>
        \A k \in DOMAIN data_rows :
            \A modality \in Modalities :
                modality \in DOMAIN data_rows[k].pairs
                    <=> \E c \in attempted[k] : c.modality = modality

\* what run does: a metric is attempted only for a modality that has a pair
AttemptedOnlyWithPair ==
    InRun =>
        \A k \in DOMAIN data_rows :
            \A c \in attempted[k] : c.modality \in DOMAIN data_rows[k].pairs

\* the rows that hold an audio pair while audio ai_detection is requested
AudioAiRows ==
    {k \in DOMAIN data_rows :
        /\ "audio" \in DOMAIN data_rows[k].pairs
        /\ "ai_detection" \in Range(metrics.audio)}

\* the rows that hold an image pair while image ai_detection is requested
ImageAiRows ==
    {k \in DOMAIN data_rows :
        /\ "image" \in DOMAIN data_rows[k].pairs
        /\ "ai_detection" \in Range(metrics.image)}

\* the transition rate of the audio candidate of row k
RateOf(k) == calculate_gatekeeper_score(data_rows[k].pairs["audio"][2])

(* C18: the audio gatekeeper.  With audio ai_detection requested, a candidate
   whose LSB transition rate is above 0.455 gets the score 1.0, and neither
   extract_audio_features nor the classifier is called; at 0.455 or below the
   score is the classifier's probability for the candidate's features, or 0.0
   when no classifier is loaded. *)
C18_AudioGatekeeper ==
    InRun =>
        \A k \in AudioAiRows :
            LET row == data_rows[k]
                cmp_path == row.pairs["audio"][2]
                features == extract_audio_features(cmp_path)
            IN  /\ "audio_ai_detection" \in DOMAIN row.metrics
                /\ IF Above455(RateOf(k))
                   THEN /\ row.metrics["audio_ai_detection"] = Score(1000)
                        /\ Call("audio", "extract_audio_features") \notin attempted[k]
                        /\ Call("audio", "predict_proba") \notin attempted[k]
                   ELSE IF aud_model
                   THEN (~features.null /\ ~PredictRaises) =>
                            /\ row.metrics["audio_ai_detection"] =
                                    Score(predict_proba(features))
                            /\ Call("audio", "predict_proba") \in attempted[k]
                   ELSE row.metrics["audio_ai_detection"] = Score(0)

C18_Witness ==
    /\ Finished
    /\ aud_model
    /\ \E k \in AudioAiRows :
          /\ Exactly455(RateOf(k))
          /\ data_rows[k].metrics["audio_ai_detection"] # Score(1000)
          /\ data_rows[k].metrics["audio_ai_detection"] # Score(0)
    /\ \E k \in AudioAiRows :
          /\ Above455(RateOf(k))
          /\ data_rows[k].metrics["audio_ai_detection"] = Score(1000)

\* the same, for a rate below the threshold and for a worker without classifier
C18_WitnessBelow ==
    /\ Finished
    /\ \E k \in AudioAiRows :
          /\ ~Above455(RateOf(k)) /\ ~Exactly455(RateOf(k))
          /\ IF aud_model
             THEN Call("audio", "predict_proba") \in attempted[k]
             ELSE data_rows[k].metrics["audio_ai_detection"] = Score(0)

(* C19: without a loaded classifier ai_detection raises nothing and the run
   does not abort: image_ai_detection is stored as 0.0, audio_ai_detection as
   1.0 when the gatekeeper fires and as 0.0 otherwise. *)
C19_NoClassifier ==
    InRun =>
        /\ ~img_model =>
              \A k \in ImageAiRows :
                  /\ "image_ai_detection" \in DOMAIN data_rows[k].metrics
                  /\ data_rows[k].metrics["image_ai_detection"] = Score(0)
        /\ ~aud_model =>
              \A k \in AudioAiRows :
                  /\ "audio_ai_detection" \in DOMAIN data_rows[k].metrics
                  /\ data_rows[k].metrics["audio_ai_detection"] =
                        IF Above455(RateOf(k)) THEN Score(1000) ELSE Score(0)
        /\ (pc = "done" /\ WellFormed(metrics) /\ DOMAIN groups # {}) =>
              LastSignal.sig = "finished" /\ Len(data_rows) = Len(order)

C19_Witness ==
    /\ Finished
    /\ ~img_model /\ ~aud_model
    \* an image the trained classifier would score above 0.0
    /\ \E k \in ImageAiRows :
          LET features == extract_image_features(data_rows[k].pairs["image"][2])
          IN  ~features.null /\ predict_proba(features) > 0
    /\ \E k \in AudioAiRows : Above455(RateOf(k))

\* the same, for an audio candidate the gatekeeper lets pass
C19_WitnessGateSilent ==
    /\ Finished
    /\ ~aud_model
    /\ \E k \in AudioAiRows :
          /\ ~Above455(RateOf(k))
          /\ predict_proba(extract_audio_features(data_rows[k].pairs["audio"][2])) > 0

(* C20 as stated: the two models load independently: each one is loaded
   exactly when its own file exists and is valid, whatever the state of the
   other file. *)
C20_ModelsLoadIndependently ==
    RunPhase =>
        /\ img_model <=> model_files.image = "valid"
        /\ aud_model <=> model_files.audio = "valid"

\* what _load_models does: a missing file is skipped, but a corrupt image file
\* ends the try block before the audio model is looked at
ModelsAsLoaded ==
    RunPhase =>
        /\ img_model <=> model_files.image = "valid"
        /\ aud_model <=> (model_files.audio = "valid" /\ model_files.image # "corrupt")

\* the rows that hold a pair for the modality while its list names ai_detection
AiRows(modality) ==
    {k \in DOMAIN data_rows :
        /\ modality \in DOMAIN data_rows[k].pairs
        /\ "ai_detection" \in Range(metrics[modality])}

(* C21 as stated: for every modality whose selection list holds ai_detection,
   every row with a pair for that modality has the entry
   <modality>_ai_detection, produced by the detection cascade. *)
C21_AiDetectionForEveryModality ==
    InRun =>
        \A modality \in Modalities :
            \A k \in AiRows(modality) :
                /\ Key(modality, "ai_detection") \in DOMAIN data_rows[k].metrics
                /\ Call(modality, "ai_detection") \in attempted[k]

\* what run does: the cascade exists for audio and image; under text the name
\* ai_detection is one more name the registry has no key for
AiDetectionAsCoded ==
    InRun =>
        /\ \A modality \in {"audio", "image"} :
              \A k \in AiRows(modality) :
                  /\ Key(modality, "ai_detection") \in DOMAIN data_rows[k].metrics
                  /\ Call(modality, "ai_detection") \in attempted[k]
                  /\ Call(modality, Key(modality, "ai_detection")) \notin attempted[k]
        /\ \A k \in DOMAIN data_rows :
              /\ "text_ai_detection" \notin DOMAIN data_rows[k].metrics
              /\ Call("text", "ai_detection") \notin attempted[k]

\* a row whose text pair was built while text ai_detection was requested
TextAiRequested ==
    /\ Finished
    /\ AiRows("text") # {}

(* C22 as stated: a candidate that is byte-for-byte its reference gets the
   anomaly score 0.0: audio_ai_detection and image_ai_detection are stored as
   0.0, whichever classifier is loaded and whatever the LSB transition rate. *)
C22_IdenticalScoresZero ==
    InRun =>
        \A modality \in {"audio", "image"} :
            \A k \in AiRows(modality) :
                LET row == data_rows[k]
                IN  BytesOf(row.pairs[modality][1]) = BytesOf(row.pairs[modality][2]) =>
                        row.metrics[Key(modality, "ai_detection")] = Score(0)

\* what run does: neither cascade is handed the reference; the score of a row
\* is a function of its candidate and of the loaded classifier
ScoreIgnoresReference ==
    InRun =>
        /\ \A k \in AiRows("audio") :
              data_rows[k].metrics["audio_ai_detection"] =
                  Score(AudioCascade(data_rows[k].pairs["audio"][2], aud_model).score)
        /\ \A k \in AiRows("image") :
              data_rows[k].metrics["image_ai_detection"] =
                  Score(ImageCascade(data_rows[k].pairs["image"][2], img_model).score)

(* C23 as stated: every audio fingerprint is a vector of n_bins = 500 entries,
   so the cosine distance of two fingerprints never raises out of
   group_files_smart. *)
C23_FingerprintsHaveFixedLength ==
    /\ pc # "raised"
    /\ \A k \in DOMAIN orig_entries :
          (orig_entries[k].type = "audio" /\ ~orig_entries[k].fingerprint.null) =>
              orig_entries[k].fingerprint.vec.bins = n_bins

\* what calculate_audio_fingerprint does: a spectrum of at most n_bins entries
\* is the fingerprint as it is, and the call ends in an exception exactly when
\* a candidate's fingerprint and an original's differ in length
FingerprintLengthAsCoded ==
    /\ \A k \in DOMAIN orig_entries :
          (orig_entries[k].type = "audio" /\ ~orig_entries[k].fingerprint.null) =>
              LET spectrum == Disk(orig_entries[k].path).vec
              IN  orig_entries[k].fingerprint.vec.bins =
                      IF spectrum.bins > n_bins THEN n_bins ELSE spectrum.bins
    /\ pc = "raised" =>
          \E path \in Range(stegos) \cup Range(extracts) :
              /\ HasVector(path)
              /\ \E k \in DOMAIN orig_entries :
                    /\ orig_entries[k].type = "audio"
                    /\ ~orig_entries[k].fingerprint.null
                    /\ CosineRaises(calculate_audio_fingerprint(path).vec,
                                    orig_entries[k].fingerprint.vec)

(* C25: every group group_files_smart returns holds exactly one candidate
   path: one of its lists stego and extract has length 1 and the other is
   empty. *)
C25_OneCandidatePerGroup ==
    \A gid \in DOMAIN groups :
        \/ Len(groups[gid].stego) = 1 /\ Len(groups[gid].extract) = 0
        \/ Len(groups[gid].stego) = 0 /\ Len(groups[gid].extract) = 1

\* two stego candidates and an extract candidate of one original, in three groups
C25_Witness ==
    /\ pc = "returned"
    /\ \E a, b, c \in AcceptedIdx :
          /\ a < b
          /\ visited[a].kind = "stego" /\ visited[b].kind = "stego"
          /\ visited[c].kind = "extract"
          /\ visited[a].match = visited[b].match
          /\ visited[a].match = visited[c].match
          /\ Cardinality({visited[a].gid, visited[b].gid, visited[c].gid}) = 3

(* C26: when run ends with finished on the output of group_files_smart, the
   finished list holds exactly one row per group, also for a group whose row
   has no pair and no metric; the id of each row is the id of its group, and
   the pairs of a row hold at most one modality. *)
C26_OneRowPerGroup ==
    Finished =>
        LET rows == LastSignal.rows
        IN  /\ Len(rows) = Cardinality(DOMAIN groups)
            /\ {rows[k].id : k \in DOMAIN rows} = DOMAIN groups
            /\ \A k \in DOMAIN rows : rows[k].id = order[k]
            /\ \A k \in DOMAIN rows : Cardinality(DOMAIN rows[k].pairs) <= 1

C26_Witness ==
    /\ Finished
    /\ Len(LastSignal.rows) >= 2
    /\ \E k \in DOMAIN LastSignal.rows :
          /\ DOMAIN LastSignal.rows[k].pairs = {}
          /\ DOMAIN LastSignal.rows[k].metrics = {}
    /\ \E k \in DOMAIN LastSignal.rows :
          /\ Cardinality(DOMAIN LastSignal.rows[k].pairs) = 1
          /\ DOMAIN LastSignal.rows[k].metrics # {}

\* the names of a list that give no registry key and are not the audio or
\* image pseudo-metric
UnknownNames(modality) ==
    {name \in Range(metrics[modality]) :
        /\ Key(modality, name) \notin METRIC_REGISTRY
        /\ ~(name = "ai_detection" /\ modality \in {"audio", "image"})}

\* the registry keys of row k that its metric functions return a value for
Computable(k) ==
    UNION {{key \in RegistryKeys(modality) :
                ~MetricRaises(key, data_rows[k].pairs[modality][1],
                              data_rows[k].pairs[modality][2])} :
           modality \in DOMAIN data_rows[k].pairs}

(* C27: a requested name whose key is not in METRIC_REGISTRY is skipped in
   silence.  The entries of a row are those of the requested registry keys
   whose function returns, each with the function's value, and the pseudo-metric
   entries: nothing is stored or called for the unknown name, and with a
   well-formed selection the run ends with finished. *)
C27_UnknownNameSkipped ==
    InRun =>
        /\ \A k \in DOMAIN data_rows :
              LET row == data_rows[k]
              IN  /\ DOMAIN row.metrics =
                        Computable(k) \cup
                        {Key(modality, "ai_detection") :
                            modality \in {m \in {"audio", "image"} : k \in AiRows(m)}}
                  /\ \A modality \in DOMAIN row.pairs :
                        \A key \in Computable(k) \cap RegistryKeys(modality) :
                            row.metrics[key] = MetricValue(key, row.pairs[modality][1],
                                                           row.pairs[modality][2])
                  /\ \A modality \in DOMAIN row.pairs :
                        \A name \in UnknownNames(modality) :
                            Call(modality, Key(modality, name)) \notin attempted[k]
        /\ (pc = "done" /\ WellFormed(metrics)) => LastSignal.sig = "finished"

\* rows of two modalities, each with an unknown name next to a known one that
\* was stored
C27_Witness ==
    /\ Finished
    /\ Cardinality({modality \in Modalities :
            \E k \in DOMAIN data_rows :
                /\ modality \in DOMAIN data_rows[k].pairs
                /\ UnknownNames(modality) # {}
                /\ RegistryKeys(modality) \cap DOMAIN data_rows[k].metrics # {}}) >= 2

\* the try block of the audio cascade is left by an exception, or finds no features
AudioCascadeFails(cmp_path) ==
    \/ GatekeeperRaises(cmp_path)
    \/ /\ ~GateFires(calculate_gatekeeper_score(cmp_path))
       /\ aud_model
       /\ extract_audio_features(cmp_path).null \/ PredictRaises

\* the same for the image cascade
ImageCascadeFails(target_img) ==
    /\ img_model
    /\ extract_image_features(target_img).null \/ PredictRaises

(* C28: a failure inside the detection cascade does not omit the key.  When
   the gatekeeper, the feature extraction or the classifier raises, or the
   feature extraction returns None, while ai_detection is requested for audio
   or image, the row holds <modality>_ai_detection = 0.0, and the run goes on
   to finished. *)
C28_CascadeFailureStoresZero ==
    InRun =>
        /\ \A k \in AiRows("audio") :
              AudioCascadeFails(data_rows[k].pairs["audio"][2]) =>
                  /\ "audio_ai_detection" \in DOMAIN data_rows[k].metrics
                  /\ data_rows[k].metrics["audio_ai_detection"] = Score(0)
        /\ \A k \in AiRows("image") :
              ImageCascadeFails(data_rows[k].pairs["image"][2]) =>
                  /\ "image_ai_detection" \in DOMAIN data_rows[k].metrics
                  /\ data_rows[k].metrics["image_ai_detection"] = Score(0)
        /\ (pc = "done" /\ WellFormed(metrics)) =>
              LastSignal.sig = "finished" /\ Len(LastSignal.rows) = Len(order)

\* the gatekeeper raised for one row and the image features were None for another
C28_Witness ==
    /\ Finished
    /\ \E k \in AiRows("audio") : GatekeeperRaises(data_rows[k].pairs["audio"][2])
    /\ \E k \in AiRows("image") :
          /\ img_model
          /\ extract_image_features(data_rows[k].pairs["image"][2]).null

\* the classifiers raised on the features of an audio and of an image candidate
C28_WitnessClassifier ==
    /\ Finished
    /\ PredictRaises
    /\ \E k \in AiRows("audio") :
          Call("audio", "predict_proba") \in attempted[k]
    /\ \E k \in AiRows("image") :
          Call("image", "predict_proba") \in attempted[k]

\* the lower-cased extension is in neither IMG_EXT nor AUD_EXT
NoMediaExt(path) == lower(path.ext) \notin IMG_EXT \cup AUD_EXT

\* the originals classified as text that share a token with the path
TextOverlap(path) ==
    {j \in DOMAIN orig_entries :
        orig_entries[j].type = "text" /\ Overlap(path, j) > 0}

(* C30: the classification by extension is total.  A file whose lower-cased
   extension is in neither IMG_EXT nor AUD_EXT, an unknown or an empty one
   included, is treated as text: it gets no fingerprint, and as a candidate it
   is matched only through token overlap, with an original that is classified
   as text as well; without such an original it is dropped. *)
C30_EverythingElseIsText ==
    InCall =>
        /\ \A k \in DOMAIN orig_entries :
              NoMediaExt(orig_entries[k].path) =>
                  orig_entries[k].type = "text" /\ orig_entries[k].fingerprint.null
        /\ \A k \in DOMAIN orig_entries :
              orig_entries[k].type \in Modalities
        /\ \A k \in DOMAIN visited :
              LET v == visited[k]
              IN  NoMediaExt(v.path) =>
                      /\ TypeOf(v.path) = "text"
                      /\ CandFingerprint(v.path).null
                      /\ IF TextOverlap(v.path) = {}
                         THEN v.match = 0 /\ v.stage = "none"
                         ELSE v.match \in TextOverlap(v.path) /\ v.stage = "token"

\* a candidate with an extension of no list matched to a text original, and a
\* .txt original among the entries
C30_Witness ==
    /\ pc = "returned"
    /\ \E k \in AcceptedIdx :
          /\ lower(visited[k].path.ext) \notin IMG_EXT \cup AUD_EXT \cup TXT_EXT
          /\ visited[k].stage = "token"
          /\ orig_entries[visited[k].match].type = "text"
    /\ \E j \in DOMAIN orig_entries :
          /\ lower(orig_entries[j].path.ext) \in TXT_EXT
          /\ orig_entries[j].type = "text"
          /\ orig_entries[j].fingerprint.null

\* a candidate without extension that shares a token with an audio original
\* only, and is dropped
C30_WitnessDropped ==
    /\ pc = "returned"
    /\ \E d \in DroppedIdx :
          /\ visited[d].path.ext = ""
          /\ \E j \in DOMAIN orig_entries :
                orig_entries[j].type = "audio" /\ Overlap(visited[d].path, j) > 0
          /\ \E j \in DOMAIN orig_entries : orig_entries[j].type = "text"

-----------------------------------------------------------------------------
(* utils.calculate_image_stego_prob and utils.calculate_audio_stego_prob,
   called directly.  A returned probability is kept in ten-thousandths, the
   unit round(x, 4) leaves: 1.0 is 10000. *)

\* the largest number of pixels of an image file
MaxPixels == 2
\* the largest number of samples an audio file is written out with
MaxPrefix == 3
\* the number of frames of the long audio files
LongLen == 400

\* the channel values the image files are made of
PixelValues == {0, 1, 255}
\* the int16 samples the reference and the candidate files are made of
RefSamples == {0, 1}
CmpSamples == {-32768, 0, 16384}

\* the sequences over S of a length from lo to hi
SeqsFromTo(S, lo, hi) == UNION {[1..n -> S] : n \in lo..hi}

Sizes == {sz \in (1..MaxPixels) \X (1..MaxPixels) : sz[1] * sz[2] <= MaxPixels}

\* image files: greyscale ones of every size, RGB ones of one pixel, and a
\* file Image.open raises on
GreyFiles ==
    {[fmt |-> "L", size |-> sz, data |-> d] :
        sz \in Sizes, d \in SeqsFromTo(PixelValues, 1, MaxPixels)}
ImageFiles ==
    {f \in GreyFiles : Len(f.data) = f.size[1] * f.size[2]}
        \cup {[fmt |-> "RGB", size |-> <<1, 1>>, data |-> d] : d \in [1..3 -> PixelValues]}
        \cup {[fmt |-> "other", size |-> <<0, 0>>, data |-> <<>>]}

\* audio files: mono int16 frames, n of them; the frames after head are 0.  A
\* file is as long as its head or has LongLen frames; one file sf.read raises on
AudioFiles(S) ==
    {[fmt |-> "audio", n |-> n, head |-> h] :
        h \in SeqsFromTo(S, 0, MaxPrefix), n \in {0, LongLen}}
AudioFilesOf(S) ==
    {[f EXCEPT !.n = IF f.n = 0 THEN Len(f.head) ELSE f.n] : f \in AudioFiles(S)}
        \cup {[fmt |-> "other", n |-> 0, head |-> <<>>]}

\* Image.open(path).convert('RGB'), as the flat int16 array of np.array(...):
\* a grey value is written to the three channels of its pixel
convert_RGB(img) ==
    IF img.fmt = "L"
    THEN [k \in 1..(3 * Len(img.data)) |-> img.data[(k - 1) \div 3 + 1]]
    ELSE img.data

Abs(x) == IF x < 0 THEN 0 - x ELSE x

\* np.abs(arr_ref - arr_cmp).flatten() on arrays of one shape
ImageDiff(arr_ref, arr_cmp) == [k \in DOMAIN arr_ref |-> Abs(arr_ref[k] - arr_cmp[k])]

RECURSIVE SumSeq(_, _)
SumSeq(s, k) == IF k > Len(s) THEN 0 ELSE s[k] + SumSeq(s, k + 1)

\* np.bincount(non_zero_diff), its non-zero counts in descending order
RECURSIVE Descending(_, _)
Descending(values, count) ==
    IF values = {} THEN <<>>
    ELSE LET top == CHOOSE v \in values : \A u \in values : count[u] <= count[v]
         IN  <<count[top]>> \o Descending(values \ {top}, count)

Profile(flat_diff) ==
    LET values == {flat_diff[k] : k \in DOMAIN flat_diff} \ {0}
        count == [v \in values |-> Cardinality({k \in DOMAIN flat_diff : flat_diff[k] = v})]
    IN  Descending(values, count)

\* round(1 / (1 + exp(-(entropy - 0.5) * 2)), 4) for the entropy
\* -sum(p * log2(p)) of the counts of a profile, as the code evaluates it in
\* double precision
SigmoidOfEntropy(profile) ==
    CASE Len(profile) = 1 -> 2689
      [] profile = <<1, 1>> -> 7311
      [] profile = <<2, 1>> -> 6977
      [] profile = <<2, 2>> -> 7311
      [] profile = <<3, 1>> -> 6508
      [] profile = <<3, 2>> -> 7195
      [] profile = <<4, 1>> -> 6092
      [] profile = <<3, 3>> -> 7311
      [] profile = <<4, 2>> -> 6977
      [] profile = <<5, 1>> -> 5745
      [] profile = <<4, 3>> -> 7252
      [] profile = <<5, 2>> -> 6740
      [] profile = <<6, 1>> -> 5457
      [] profile = <<4, 4>> -> 7311
      [] profile = <<5, 3>> -> 7128
      [] profile = <<6, 2>> -> 6508
      [] profile = <<7, 1>> -> 5218
      [] profile = <<5, 4>> -> 7275
      [] profile = <<6, 3>> -> 6977
      [] profile = <<7, 2>> -> 6291
      [] profile = <<8, 1>> -> 5016
      [] profile = <<1, 1, 1>> -> 8975
      [] profile = <<2, 1, 1>> -> 8808
      [] profile = <<2, 2, 1>> -> 8853
      [] profile = <<3, 1, 1>> -> 8509
      [] profile = <<2, 2, 2>> -> 8975
      [] profile = <<3, 2, 1>> -> 8719
      [] profile = <<4, 1, 1>> -> 8181
      [] profile = <<3, 2, 2>> -> 8922
      [] profile = <<3, 3, 1>> -> 8696
      [] profile = <<4, 2, 1>> -> 8529
      [] profile = <<5, 1, 1>> -> 7854
      [] profile = <<3, 3, 2>> -> 8931
      [] profile = <<4, 2, 2>> -> 8808
      [] profile = <<4, 3, 1>> -> 8595
      [] profile = <<5, 2, 1>> -> 8317
      [] profile = <<6, 1, 1>> -> 7545
      [] profile = <<3, 3, 3>> -> 8975
      [] profile = <<4, 3, 2>> -> 8871
      [] profile = <<4, 4, 1>> -> 8562
      [] profile = <<5, 2, 2>> -> 8666
      [] profile = <<5, 3, 1>> -> 8460
      [] profile = <<6, 2, 1>> -> 8098
      [] profile = <<7, 1, 1>> -> 7257

calculate_image_stego_probNoSizeCheck(ref, cmp) ==
    IF ref.fmt = "other" \/ cmp.fmt = "other" \/ ref.size # cmp.size THEN 0
    ELSE LET flat_diff == ImageDiff(convert_RGB(ref), convert_RGB(cmp))
         IN  IF SumSeq(flat_diff, 1) = 0 THEN 0
             ELSE SigmoidOfEntropy(Profile(flat_diff))

\* utils.calculate_image_stego_prob; an exception of Image.open gives 0.0
calculate_image_stego_prob(ref, cmp) ==
    IF ref.fmt = "other" \/ cmp.fmt = "other" THEN 0
    ELSE IF ref.size # cmp.size THEN 10000
    ELSE LET flat_diff == ImageDiff(convert_RGB(ref), convert_RGB(cmp))
         IN  IF SumSeq(flat_diff, 1) = 0 THEN 0
             ELSE IF Profile(flat_diff) = <<>> THEN 0
             ELSE SigmoidOfEntropy(Profile(flat_diff))

\* int16 arithmetic: the result modulo 2^16, in -32768..32767
Wrap16(x) == ((x + 32768) % 65536) - 32768

\* np.abs on int16: the absolute value, wrapped
Abs16(x) == Wrap16(Abs(x))

\* frame k of an audio file
SampleAt(y, k) == IF k <= Len(y.head) THEN y.head[k] ELSE 0

Min(a, b) == IF a < b THEN a ELSE b

\* round(prob, 4) of prob = num / den, in ten-thousandths
Round4(num, den) == (2 * 10000 * num + den) \div (2 * den)

\* utils.calculate_audio_stego_prob on mono files; an exception of sf.read
\* gives 0.0.  The entries of diff after the written-out frames are 0.
calculate_audio_stego_prob(ref, cmp) ==
    IF ref.fmt = "other" \/ cmp.fmt = "other" THEN 0
    ELSE LET min_len == Min(ref.n, cmp.n)
             shown == Min(min_len, MaxPrefix + 1)
             diff == [k \in 1..shown |-> Abs16(Wrap16(SampleAt(ref, k) - SampleAt(cmp, k)))]
         IN  IF SumSeq(diff, 1) = 0 THEN 0
             ELSE LET non_zero_count == Cardinality({k \in 1..shown : diff[k] # 0})
                      capped == 20 * non_zero_count >= min_len
                      max_diff == CHOOSE d \in {diff[k] : k \in 1..shown} :
                                      \A k \in 1..shown : diff[k] <= d
                  IN  IF capped THEN 10000
                      ELSE IF max_diff > 0 /\ 10 * 20 * non_zero_count < min_len
                      THEN 1000
                      ELSE Round4(20 * non_zero_count, min_len)

\* the calls that can be made
ProbeInputs ==
    {[fn |-> "image", ref |-> r, cmp |-> c, done |-> FALSE, out |-> 0] :
        r \in ImageFiles, c \in ImageFiles}
    \cup {[fn |-> "audio", ref |-> r, cmp |-> c, done |-> FALSE, out |-> 0] :
        r \in AudioFilesOf(RefSamples), c \in AudioFilesOf(CmpSamples)}

InitProb ==
    /\ probe \in ProbeInputs
    /\ pc = "probe"
    /\ originals = <<>> /\ stegos = <<>> /\ extracts = <<>>
    /\ orig_entries = <<>>
    /\ final_refs = NoRefs
    /\ groups = <<>>
    /\ global_id_counter = 1
    /\ i = 1
    /\ visited = <<>>
    /\ model_files = BothValid
    /\ model_fits = TRUE
    /\ requested = NoMetrics
    /\ metrics = NoMetrics
    /\ img_model = FALSE
    /\ aud_model = FALSE
    /\ order = <<>>
    /\ run_i = 1
    /\ data_rows = <<>>
    /\ emitted = <<>>
    /\ attempted = <<>>

\* calculate_image_stego_prob(ref_path, cmp_path) returns
ProbeImage ==
    /\ pc = "probe"
    /\ probe.fn = "image" /\ ~probe.done
    /\ probe' = [probe EXCEPT !.done = TRUE,
                              !.out = calculate_image_stego_prob(probe.ref, probe.cmp)]
    /\ UNCHANGED <<final_refs, groups, pc, model_files, model_fits, requested>>
    /\ UNCHANGED gvars
    /\ UNCHANGED wvars

\* calculate_audio_stego_prob(ref_path, cmp_path) returns
ProbeAudio ==
    /\ pc = "probe"
    /\ probe.fn = "audio" /\ ~probe.done
    /\ probe' = [probe EXCEPT !.done = TRUE,
                              !.out = calculate_audio_stego_prob(probe.ref, probe.cmp)]
    /\ UNCHANGED <<final_refs, groups, pc, model_files, model_fits, requested>>
    /\ UNCHANGED gvars
    /\ UNCHANGED wvars

NextProb == ProbeImage \/ ProbeAudio

SpecProb == InitProb /\ [][NextProb]_vars

\* a call of the function has returned
Returned(fn) == pc = "probe" /\ probe.fn = fn /\ probe.done

(* C24: calculate_image_stego_prob returns exactly 1.0 when the two images
   differ in width or height, exactly 0.0 when they have the same dimensions
   and a residual of zero, and in every case a value from 0.0 to 1.0. *)
C24_ImageProbRange ==
    Returned("image") =>
        /\ probe.out \in 0..10000
        /\ (/\ probe.ref.fmt # "other" /\ probe.cmp.fmt # "other"
            /\ probe.ref.size # probe.cmp.size) => probe.out = 10000
        /\ (/\ probe.ref.fmt # "other" /\ probe.cmp.fmt # "other"
            /\ probe.ref.size = probe.cmp.size
            /\ convert_RGB(probe.ref) = convert_RGB(probe.cmp)) => probe.out = 0

\* two images of as many pixels and of different shape
C24_Witness ==
    /\ Returned("image")
    /\ probe.ref.size # probe.cmp.size
    /\ Len(convert_RGB(probe.ref)) = Len(convert_RGB(probe.cmp))
    /\ probe.out = 10000

\* a grey file and an RGB file that hold the same pixel
C24_WitnessZero ==
    /\ Returned("image")
    /\ probe.ref.fmt = "L" /\ probe.cmp.fmt = "RGB"
    /\ probe.out = 0

\* a residual of three different magnitudes
C24_WitnessBetween ==
    /\ Returned("image")
    /\ probe.out \notin {0, 10000}
    /\ Len(Profile(ImageDiff(convert_RGB(probe.ref), convert_RGB(probe.cmp)))) = 3

\* some compared pair of samples differs
SamplesDiffer ==
    \E k \in 1..Min(probe.ref.n, probe.cmp.n) :
        SampleAt(probe.ref, k) # SampleAt(probe.cmp, k)

(* C29 as stated: calculate_audio_stego_prob returns 0.0 only if every
   compared pair of samples is equal, and a value from 0.1 to 1.0 whenever a
   pair differs, for all int16 values with 16-bit wrap-around arithmetic. *)
C29_AudioProbSeparatesEqualFromChanged ==
    (/\ Returned("audio")
     /\ probe.ref.fmt # "other" /\ probe.cmp.fmt # "other") =>
        /\ probe.out = 0 => ~SamplesDiffer
        /\ SamplesDiffer => probe.out \in 1000..10000

\* what the function does when no difference is -32768 before np.abs
AudioProbWithoutWrap ==
    (/\ Returned("audio")
     /\ probe.ref.fmt # "other" /\ probe.cmp.fmt # "other"
     /\ \A k \in 1..Min(probe.ref.n, probe.cmp.n) :
            Wrap16(SampleAt(probe.ref, k) - SampleAt(probe.cmp, k)) # -32768) =>
        /\ probe.out = 0 <=> ~SamplesDiffer
        /\ SamplesDiffer => probe.out \in 1000..10000

\* both functions return 0.0 for a candidate that is its reference
IdenticalFilesScoreZero ==
    (pc = "probe" /\ probe.done /\ probe.ref = probe.cmp) => probe.out = 0

=============================================================================
